---- MODULE Spec2Model ----
(***************************************************************************)
(* RocksDBFusion server: the engine manager (server/src/db_manager.rs),    *)
(* the dispatcher (server/src/server.rs) and the write-back cache          *)
(* (server/src/cache/cache.rs, server/src/queue.rs) as a state machine.    *)
(*                                                                         *)
(* Every connection task is a process with a program counter.  A step of   *)
(* a process is the code between two points where the thread can block     *)
(* (a mutex, the engine read/write lock, the condition variable).          *)
(***************************************************************************)
EXTENDS Integers, Sequences, FiniteSets, TLC

None == "None"

\* Connection tasks (one per accepted socket) and the cache's drain task.
Conns == {"c1", "c2"}
Drain == "drain"
Tasks == Conns \cup {Drain}
\* Keys, values and column-family names a request may carry.
Keys == {"k1", "k2"}
Vals == {"v1", "v2"}
DefaultCf == "default"
NamedCf == "cf1"
Cfs == {DefaultCf, NamedCf}
Cells == Cfs \X Keys

\* Requests one connection sends in a run.
MaxOps == 2
\* Requests the other connection sends while one connection runs a script.
MaxOtherOps == 1
\* Requests connection c1 sends in the runs checked for progress.
MaxLiveOps == 2
\* Spurious wake-ups of Condvar::wait in a run.
MaxSpurious == 2

VARIABLES
    db,               \* RocksDBManager.db: the normal-mode handle slot
    rw_readers,       \* read guards of the db RwLock held by each task
    rw_wwait,         \* tasks blocked in db.write()
    txn_db,           \* RocksDBManager.txn_db: the transactional handle slot
    transaction,      \* RocksDBManager.transaction: <<>> or <<write set>>
    txn_db_mtx,       \* owner of the txn_db mutex, "free" or "poisoned"
    transaction_mtx,  \* owner of the transaction mutex, "free" or "poisoned"
    cv_notified,      \* tasks in Condvar::wait that notify_all has woken
    spurious,         \* spurious wake-ups so far
    engine_lock,      \* the engine's LOCK file on db_path: "free", "normal", "txn"
    cfs,              \* column families that exist on disk
    store,            \* committed contents: (cf, key) -> value or None
    backups,          \* contents of the backups taken, oldest first
    pc,               \* position of each connection task
    req,              \* the request a task is serving (or served last)
    resp,             \* the last response written to each connection
    local,            \* a task's local `result` in commit and rollback
    budget,           \* requests each connection may still send
    script,           \* the requests a scripted client has yet to send
    enabled,          \* CacheLayer.enabled
    cache,            \* CacheLayer.data: (cf, key) -> value or None
    live,             \* cached cells not yet expired, least recently touched first
    queue,            \* TaskQueue: the drain task's channel
    data_lock,        \* holder of CacheLayer.data's write guard, or "free"
    build,            \* the std::sync implementation the binary was built with
    write_batch,      \* RocksDBManager.write_batch: <<>> or <<staged operations>>
    iterators,        \* RocksDBManager.iterators: id -> (position, direction)
    iterator_id_counter, \* RocksDBManager.iterator_id_counter
    issued,           \* the ids create_iterator has returned, in order
    auth_token,       \* RocksDBServer.auth_token
    wire,             \* per connection: the frames sent and not yet read
    buffer,           \* handle_client's buffer: the frames read, not yet taken
    outbox,           \* per connection: the responses written to the socket
    merge_call,       \* the merge operator's last call: its inputs and result
    trail             \* the requests served back to back on one connection

vars == <<db, rw_readers, rw_wwait, txn_db, transaction, txn_db_mtx,
          transaction_mtx, cv_notified, spurious, engine_lock, cfs, store,
          backups, pc, req, resp, local, budget, script, enabled, cache,
          live, queue, data_lock, build, write_batch, iterators, iterator_id_counter,
          issued, auth_token, wire, buffer, outbox, merge_call, trail>>

cacheVars == <<enabled, cache, live, queue, data_lock>>

\* The write batch, the iterators, the server's token and the sockets.
adminVars ==
    <<write_batch, iterators, iterator_id_counter, issued, auth_token, wire,
      buffer, outbox, merge_call>>

----------------------------------------------------------------------------
\* Response (server.rs 29-34) and the error strings of db_manager.rs.

Response(success, result, error) ==
    [success |-> success, result |-> result, error |-> error]

Ok(result) == Response(TRUE, result, None)
Err(msg) == Response(FALSE, None, msg)

DB_CLOSED == "Database is not open"
CF_NOT_FOUND == "Column family not found"
KEY_NOT_FOUND == "Key not found"
NO_TXN_COMMIT == "No active transaction to commit"
NO_TXN_ROLLBACK == "No active transaction to rollback"
LOCK_TXN_DB == "Failed to acquire transaction DB lock"
LOCK_TXN == "Failed to acquire transaction lock"
CV_TXN_DB == "Failed to wait on condition variable for txn_db_lock"
CV_TXN == "Failed to wait on condition variable for transaction_lock"
ENGINE_ERROR == "engine error"
LOCK_HELD == "IO error: lock hold by current process"
NO_BACKUP == "no backup found"
NO_TXN_DB == "No active transaction DB"

\* Request.options (server.rs 15) as far as one numeric option goes: <<>>
\* when the request carries no such option, <<text>> when it does, the text
\* being the characters of the option's string.
Digits == <<"0", "1">>
OptChars == {"0", "1", "x", "-", "+"}

DigitValue(ch) == CHOOSE d \in 0 .. 1 : Digits[d + 1] = ch

IsDigit(ch) == \E d \in 1 .. Len(Digits) : Digits[d] = ch

RECURSIVE DecimalValue(_)
DecimalValue(text) ==
    IF text = <<>> THEN 0
    ELSE 10 * DecimalValue(SubSeq(text, 1, Len(text) - 1))
             + DigitValue(text[Len(text)])

\* str::parse for an unsigned integer: an optional '+', then one digit or
\* more and nothing else.
parse_unsigned(text) ==
    LET body == IF text # <<>> /\ text[1] = "+" THEN Tail(text) ELSE text
    IN  IF body # <<>> /\ \A i \in 1 .. Len(body) : IsDigit(body[i])
        THEN <<DecimalValue(body)>>
        ELSE <<>>

\* Request::parse_option: None without the option or when it does not parse.
parse_option(options) ==
    IF options = <<>> THEN <<>> ELSE parse_unsigned(options[1])

\* An option that counts as 1 when it is missing or does not parse.
numeric_option_one(options) ==
    IF parse_option(options) = <<>> THEN 1 ELSE parse_option(options)[1]

\* req.parse_option(..).unwrap_or(0)
numeric_option(options) ==
    IF parse_option(options) = <<>> THEN 0 ELSE parse_option(options)[1]

\* The id a handler passes to the manager: parsed from the options when the
\* request carries them as text.
IdOf(r, field) ==
    IF "options" \in DOMAIN r THEN numeric_option(r.options) ELSE r[field]

\* Request (server.rs 9-18): the fields the handlers modelled here read; txn
\* says whether the frame carries a txn_id.
Request(action, key, value, cf_name, default, txn) ==
    [action |-> action, key |-> key, value |-> value, cf_name |-> cf_name,
     default |-> default, txn |-> txn]

NoReq == [action |-> "none"]
NoResp == Response(FALSE, None, "none")

\* Write set of a transaction: untouched, deleted, or the value written.
Untouched == "Untouched"
Deleted == "Deleted"
EmptyTxn == [cell \in Cells |-> Untouched]
\* The transaction slot is an Option: empty, or holding one write set.
NoTxn == <<>>
SomeTxn(t) == <<t>>

\* The write_batch slot: None, or Some(batch) holding the staged operations.
NoBatch == <<>>
SomeBatch(b) == <<b>>

\* The column family a request names (None is the default family).
CfOf(cf_name) == IF cf_name = None THEN DefaultCf ELSE cf_name

----------------------------------------------------------------------------
\* Results of the engine manager: Result<T, String>.

ROk(v) == [ok |-> TRUE, val |-> v]
RErr(e) == [ok |-> FALSE, val |-> e]

\* Option::or
OrDefault(opt, default) == IF opt # None THEN opt ELSE default

\* put_in_db: the handle must be open and a named family must exist.
put_in_db(d, fams, s, key, value, cf_name) ==
    IF d = None THEN [res |-> RErr(DB_CLOSED), store |-> s]
    ELSE IF cf_name # None /\ cf_name \notin fams
         THEN [res |-> RErr(CF_NOT_FOUND), store |-> s]
         ELSE [res |-> ROk(None),
               store |-> [s EXCEPT ![<<CfOf(cf_name), key>>] = value]]

\* get_in_db: the stored value, else the caller's default, else None.
get_in_db(d, fams, s, key, cf_name, default) ==
    IF d = None THEN [res |-> RErr(DB_CLOSED), store |-> s]
    ELSE IF cf_name # None /\ cf_name \notin fams
         THEN [res |-> RErr(CF_NOT_FOUND), store |-> s]
         ELSE [res |-> ROk(OrDefault(s[<<CfOf(cf_name), key>>], default)),
               store |-> s]

\* A faulty delete_in_db that leaves the key in place.
delete_in_db_noop(d, fams, s, key, cf_name) ==
    IF d = None THEN [res |-> RErr(DB_CLOSED), store |-> s]
    ELSE IF cf_name # None /\ cf_name \notin fams
         THEN [res |-> RErr(CF_NOT_FOUND), store |-> s]
         ELSE [res |-> ROk(None), store |-> s]

\* delete_in_db: deleting an absent key is not an error.
delete_in_db(d, fams, s, key, cf_name) ==
    IF d = None THEN [res |-> RErr(DB_CLOSED), store |-> s]
    ELSE IF cf_name # None /\ cf_name \notin fams
         THEN [res |-> RErr(CF_NOT_FOUND), store |-> s]
         ELSE [res |-> ROk(None),
               store |-> [s EXCEPT ![<<CfOf(cf_name), key>>] = None]]

\* Merge operands: a JSON Patch that appends 1 to the document, one that
\* removes the first element (it fails to apply to the empty array), one
\* whose second operation fails after its first has been applied, and a
\* string that is not a patch list.
Patch == "[{\"op\":\"add\",\"path\":\"/-\",\"value\":1}]"
PatchRemove == "[{\"op\":\"remove\",\"path\":\"/0\"}]"
PatchHalf ==
    "[{\"op\":\"add\",\"path\":\"/-\",\"value\":1},{\"op\":\"remove\",\"path\":\"/x\"}]"
NotAPatch == "v1"

\* The JSON documents the patches make of the empty array, in order.
Docs ==
    <<"[]", "[1]", "[1,1]", "[1,1,1]", "[1,1,1,1]", "[1,1,1,1,1]",
      "[1,1,1,1,1,1]">>

\* serde_json::from_slice(val).unwrap_or(Value::Array(vec![])): an absent
\* value and one that is not JSON both count as the empty array.
DocOf(existing) ==
    IF \E i \in 1..Len(Docs) : Docs[i] = existing
    THEN CHOOSE i \in 1..Len(Docs) : Docs[i] = existing
    ELSE 1

\* An operator that gives up at the first operand it cannot apply.
apply_operand_reset(i, operand) ==
    IF operand = Patch /\ i < Len(Docs) THEN i + 1
    ELSE IF operand = PatchRemove /\ i > 1 THEN i - 1
    ELSE 1

\* One turn of the loop over the operands, on document Docs[i]: an operand
\* that does not decode is skipped, and json_patch::patch leaves the document
\* as it was when one of the patch's operations fails.
apply_operand(i, operand) ==
    IF operand = Patch /\ i < Len(Docs) THEN i + 1
    ELSE IF operand = PatchRemove /\ i > 1 THEN i - 1
    ELSE i

RECURSIVE fold_operands(_, _)
fold_operands(i, operands) ==
    IF operands = <<>> THEN i
    ELSE fold_operands(apply_operand(i, Head(operands)), Tail(operands))

\* json_merge: the operands are applied in order to the existing document
\* and the result is serialized.
json_merge(existing, operands) ==
    Docs[fold_operands(DocOf(existing), operands)]

NoMergeCall == [existing |-> None, operands |-> <<>>, result |-> None]

\* merge_in_db: the engine collapses the operand into the stored value.
merge_in_db(d, fams, s, key, value, cf_name) ==
    IF d = None THEN [res |-> RErr(DB_CLOSED), store |-> s]
    ELSE IF cf_name # None /\ cf_name \notin fams
         THEN [res |-> RErr(CF_NOT_FOUND), store |-> s]
         ELSE LET cell == <<CfOf(cf_name), key>>
              IN  [res |-> ROk(None),
                   store |-> [s EXCEPT ![cell] =
                                  json_merge(s[cell], <<value>>)]]

\* put_in_transaction / delete_in_transaction: the write stays in the
\* transaction's write set until commit.
put_in_transaction(t, key, value, cf_name) ==
    [t EXCEPT ![<<CfOf(cf_name), key>>] = value]

delete_in_transaction(t, key, cf_name) ==
    [t EXCEPT ![<<CfOf(cf_name), key>>] = Deleted]

\* get_in_transaction: a transaction reads its own writes, then the store.
get_in_transaction(t, s, key, cf_name, default) ==
    LET cell == <<CfOf(cf_name), key>>
        seen == IF t[cell] = Untouched THEN s[cell]
                ELSE IF t[cell] = Deleted THEN None ELSE t[cell]
    IN  ROk(OrDefault(seen, default))

\* Transaction::commit: the write set reaches the store atomically.
txn_commit(s, t) ==
    [cell \in Cells |->
        IF t[cell] = Untouched THEN s[cell]
        ELSE IF t[cell] = Deleted THEN None ELSE t[cell]]

\* A faulty rollback that keeps the write set.
txn_rollback_kept(t) == t

\* Transaction::rollback: the write set is discarded.
txn_rollback(t) == EmptyTxn

----------------------------------------------------------------------------
\* The dispatcher's mapping of a manager result to a Response (server.rs).

\* A faulty handle_put that answers success whatever the manager returned.
handle_put_swallow(r) == Ok(None)

handle_put(r) == IF r.ok THEN Ok(None) ELSE Err(r.val)

\* A faulty handle_get that reports an absent key in `success` alone.
handle_get_flag(r) ==
    IF r.ok THEN Response(r.val # None, r.val, None) ELSE Err(r.val)

handle_get(r) ==
    IF r.ok THEN (IF r.val # None THEN Ok(r.val) ELSE Err(KEY_NOT_FOUND))
    ELSE Err(r.val)

handle_delete(r) == IF r.ok THEN Ok(None) ELSE Err(r.val)

handle_merge(r) == IF r.ok THEN Ok(None) ELSE Err(r.val)

\* serde_json::to_string(&()) is "null".
handle_begin_transaction(r) == IF r.ok THEN Ok("null") ELSE Err(r.val)

handle_commit_transaction(r) == IF r.ok THEN Ok("null") ELSE Err(r.val)

handle_backup(r) ==
    IF r.ok THEN Ok("Backup created successfully") ELSE Err(r.val)

handle_restore_latest(r) ==
    IF r.ok THEN Ok("Database restored from latest backup") ELSE Err(r.val)

\* The message names the backup id as well, which is left out here.
handle_restore_request(r) ==
    IF r.ok THEN Ok("Database restored from backup") ELSE Err(r.val)

\* handle_request's routing of a manager result by the request's action.
handle_request(action, r) ==
    CASE action = "put" -> handle_put(r)
      [] action = "get" -> handle_get(r)
      [] action = "delete" -> handle_delete(r)
      [] action = "merge" -> handle_merge(r)
      [] action = "begin_transaction" -> handle_begin_transaction(r)
      [] action \in {"commit_transaction", "rollback_transaction"} ->
             handle_commit_transaction(r)
      [] action = "backup" -> handle_backup(r)
      [] action = "restore" -> handle_restore_request(r)
      [] OTHER -> handle_restore_latest(r)

----------------------------------------------------------------------------
\* The db RwLock (std's futex lock prefers writers: read() blocks while a
\* writer waits) and the two mutexes.

CanRead == rw_wwait = {}
CanWrite == \A t \in Tasks : rw_readers[t] = 0
Lockable(m) == m \in {"free", "poisoned"}

NoLocal == ROk(None)

\* The requests served back to back on one connection: a step of another
\* task starts the record afresh, and a request that a step of another task
\* interleaved with is not recorded.
\* Each entry keeps the request, its response, what the engine looked like
\* when the request arrived (whether it was open in normal mode, and its
\* committed contents), and whether the cache's sweep evicted an entry since
\* the previous response.
NoTrail ==
    [owner |-> None, log |-> <<>>, skip |-> FALSE, normal |-> FALSE,
     before |-> <<>>, swept |-> FALSE]

TrailRecv(c) ==
    IF trail.owner = None THEN trail
    ELSE [owner |-> c,
          log |-> IF trail.owner = c THEN trail.log ELSE <<>>,
          skip |-> FALSE,
          normal |-> db # None,
          before |-> store,
          swept |-> trail.swept]

TrailStep(t) ==
    IF trail.owner \in {None, t} \/ t \notin Conns THEN trail
    ELSE [owner |-> t, log |-> <<>>, skip |-> TRUE, normal |-> FALSE,
          before |-> <<>>, swept |-> FALSE]

TrailEntry(tr, rq, r) ==
    IF tr.skip THEN [tr EXCEPT !.skip = FALSE, !.swept = FALSE]
    ELSE [tr EXCEPT !.log =
                        Append(@, [req |-> rq, resp |-> r,
                                   normal |-> tr.normal,
                                   before |-> tr.before,
                                   swept |-> tr.swept]),
                    !.swept = FALSE]

TrailReply(c, r) ==
    IF trail.owner = None \/ c \notin Conns THEN trail
    ELSE TrailEntry(TrailStep(c), req[c], r)

----------------------------------------------------------------------------
\* RocksDBManager::new: the engine is open in normal mode, no transaction.
\* The store holds what earlier runs left in the database directory.

InitOpen ==
    /\ db = "open"
    /\ rw_readers = [t \in Tasks |-> 0]
    /\ rw_wwait = {}
    /\ txn_db = None
    /\ transaction = NoTxn
    /\ txn_db_mtx = "free"
    /\ transaction_mtx = "free"
    /\ cv_notified = {}
    /\ spurious = 0
    /\ engine_lock = "normal"
    /\ cfs = {DefaultCf}
    /\ backups = <<>>
    /\ data_lock = "free"
    /\ pc = [t \in Tasks |-> "idle"]
    /\ req = [t \in Tasks |-> NoReq]
    /\ resp = [t \in Tasks |-> NoResp]
    /\ local = [t \in Tasks |-> NoLocal]
    /\ cache = [cell \in Cells |-> None]
    /\ live = <<>>
    /\ queue = <<>>
    /\ build \in {"futex", "pthread"}
    /\ write_batch = SomeBatch(<<>>)
    /\ iterators = <<>>
    /\ iterator_id_counter = 0
    /\ issued = <<>>
    /\ wire = [c \in Conns |-> <<>>]
    /\ buffer = [c \in Conns |-> <<>>]
    /\ outbox = [c \in Conns |-> <<>>]
    /\ merge_call = NoMergeCall

\* The manager opened on an empty database directory, and a server without
\* a token.
InitManager ==
    /\ InitOpen
    /\ store \in [Cells -> {None}]
    /\ auth_token = None

\* The dispatcher of server.rs has no cache in front of the manager, which
\* is what a disabled cache amounts to.
Init ==
    /\ InitManager
    /\ enabled = FALSE
    /\ budget = [c \in Conns |-> MaxOps]
    /\ script = [c \in Conns |-> <<>>]
    /\ trail = NoTrail

\* The response is written to the socket and the task reads the next frame.
Reply(c, r) ==
    /\ resp' = [resp EXCEPT ![c] = r]
    /\ pc' = [pc EXCEPT ![c] = "idle"]
    /\ local' = [local EXCEPT ![c] = NoLocal]
    /\ trail' = TrailReply(c, r)
    /\ UNCHANGED <<req, script>>

\* The task moves on to its next blocking point.
Goto(c, p) ==
    /\ pc' = [pc EXCEPT ![c] = p]
    /\ trail' = TrailStep(c)
    /\ UNCHANGED <<req, resp, script>>

\* A get that missed the cache writes the value the manager returned back
\* into it before answering.
WritesBack(t, r) ==
    enabled /\ t \in Conns /\ req[t].action = "get" /\ r.ok /\ r.val # None

\* The manager's put, get or delete returns r to its caller: the handler
\* (which answers at once, or writes a value it got back into the cache
\* first) or the drain task (which logs an error and goes on).
Return(t, r) ==
    IF WritesBack(t, r)
    THEN /\ local' = [local EXCEPT ![t] = r]
         /\ Goto(t, "cache_writeback")
    ELSE Reply(t, handle_request(req[t].action, r))

\* handle_client reads one frame; handle_request routes it to its handler.
Recv(c, r, p) ==
    /\ pc[c] = "idle"
    /\ budget[c] > 0
    /\ script[c] # <<>> => r = Head(script[c])
    /\ script' = [script EXCEPT ![c] = IF @ = <<>> THEN @ ELSE Tail(@)]
    /\ budget' = [budget EXCEPT ![c] = @ - 1]
    /\ req' = [req EXCEPT ![c] = r]
    /\ resp' = [resp EXCEPT ![c] = NoResp]
    /\ pc' = [pc EXCEPT ![c] = p]
    /\ trail' = TrailRecv(c)
    /\ UNCHANGED <<db, rw_readers, rw_wwait, txn_db, transaction, txn_db_mtx,
                   transaction_mtx, cv_notified, spurious, engine_lock, cfs,
                   store, backups, local, build, adminVars, cacheVars>>

\* put / get / delete: the tagged path starts at the transaction mutex, the
\* untagged one at the db read lock.
PointEntry(txn) == IF txn THEN "txn_lock" ELSE "db_read"

\* With the cache enabled, put, get and delete start at the cache.
CachedEntry(action) ==
    CASE action = "put" -> "cache_put"
      [] action = "get" -> "cache_get"
      [] OTHER -> "cache_delete"

Dispatch(action, txn) ==
    IF enabled THEN CachedEntry(action) ELSE PointEntry(txn)

RecvPut(c) ==
    \E k \in Keys, v \in Vals, cf \in {None, NamedCf}, txn \in BOOLEAN :
        Recv(c, Request("put", k, v, cf, None, txn), Dispatch("put", txn))

RecvGet(c) ==
    \E k \in Keys, cf \in {None, NamedCf}, d \in {None, "v1"},
       txn \in BOOLEAN :
        Recv(c, Request("get", k, None, cf, d, txn), Dispatch("get", txn))

RecvDelete(c) ==
    \E k \in Keys, cf \in {None, NamedCf}, txn \in BOOLEAN :
        Recv(c, Request("delete", k, None, cf, None, txn),
             Dispatch("delete", txn))

\* The *_in_db helper of the request's action.
in_db(r, d, fams, s) ==
    CASE r.action = "put" -> put_in_db(d, fams, s, r.key, r.value, r.cf_name)
      [] r.action = "get" ->
             get_in_db(d, fams, s, r.key, r.cf_name, r.default)
      [] r.action = "merge" ->
             merge_in_db(d, fams, s, r.key, r.value, r.cf_name)
      [] OTHER -> delete_in_db(d, fams, s, r.key, r.cf_name)

\* The *_in_transaction helper of the request's action: its result and the
\* transaction's write set afterwards.
in_transaction(r, t, s) ==
    CASE r.action = "put" ->
             [res |-> ROk(None),
              txn |-> put_in_transaction(t, r.key, r.value, r.cf_name)]
      [] r.action = "get" ->
             [res |-> get_in_transaction(t, s, r.key, r.cf_name, r.default),
              txn |-> t]
      [] OTHER ->
             [res |-> ROk(None),
              txn |-> delete_in_transaction(t, r.key, r.cf_name)]

\* Untagged put/get/delete: self.db.read(), then `if db.is_none()`.
db_read(c) ==
    /\ pc[c] = "db_read"
    /\ CanRead
    /\ IF db = None
       THEN /\ Return(c, RErr(DB_CLOSED))
            /\ UNCHANGED rw_readers
       ELSE /\ rw_readers' = [rw_readers EXCEPT ![c] = 1]
            /\ Goto(c, "in_db_read")
            /\ UNCHANGED local
    /\ UNCHANGED <<db, rw_wwait, txn_db, transaction, txn_db_mtx,
                   transaction_mtx, cv_notified, spurious, engine_lock, cfs,
                   store, backups, budget, build, adminVars, cacheVars>>

\* The *_in_db helper takes the read lock a second time, acts on the engine,
\* and both guards are dropped on return.
in_db_read(c) ==
    /\ pc[c] = "in_db_read"
    /\ CanRead
    /\ LET out == in_db(req[c], db, cfs, store)
       IN  /\ store' = out.store
           /\ Return(c, out.res)
    /\ rw_readers' = [rw_readers EXCEPT ![c] = 0]
    /\ UNCHANGED <<db, rw_wwait, txn_db, transaction, txn_db_mtx,
                   transaction_mtx, cv_notified, spurious, engine_lock, cfs,
                   backups, budget, build, adminVars, cacheVars>>

\* Tagged put/get/delete: self.transaction.lock().  With a transaction in the
\* slot the request runs through it (a named family needs the txn_db mutex
\* first).  With an empty slot the wait loop is skipped and the method calls
\* itself while the guard is still alive: the task arrives at "txn_retry"
\* owning the mutex its second lock() call waits for.
txn_lock(c) ==
    /\ pc[c] = "txn_lock"
    /\ Lockable(transaction_mtx)
    /\ IF transaction_mtx = "poisoned"
       THEN /\ Return(c, RErr(LOCK_TXN))
            /\ UNCHANGED <<transaction, transaction_mtx>>
       ELSE IF transaction = NoTxn
       THEN /\ transaction_mtx' = c
            /\ Goto(c, "txn_retry")
            /\ UNCHANGED <<transaction, local>>
       ELSE IF req[c].cf_name # None
       THEN /\ transaction_mtx' = c
            /\ Goto(c, "txn_cf_lock")
            /\ UNCHANGED <<transaction, local>>
       ELSE LET out == in_transaction(req[c], transaction[1], store)
            IN  /\ transaction' = SomeTxn(out.txn)
                /\ Return(c, out.res)
                /\ UNCHANGED transaction_mtx
    /\ UNCHANGED <<db, rw_readers, rw_wwait, txn_db, txn_db_mtx, cv_notified,
                   spurious, engine_lock, cfs, store, backups, budget,
                   build, adminVars, cacheVars>>

\* *_in_transaction with a named family: self.txn_db.lock(), cf_handle.
txn_cf_lock(c) ==
    /\ pc[c] = "txn_cf_lock"
    /\ Lockable(txn_db_mtx)
    /\ LET out == in_transaction(req[c], transaction[1], store)
           res == IF txn_db_mtx = "poisoned" THEN RErr(LOCK_TXN_DB)
                  ELSE IF txn_db = None THEN RErr(NO_TXN_DB)
                  ELSE IF req[c].cf_name \notin cfs THEN RErr(CF_NOT_FOUND)
                  ELSE out.res
       IN  /\ transaction' = IF res = out.res THEN SomeTxn(out.txn)
                             ELSE transaction
           /\ Return(c, res)
    /\ transaction_mtx' = "free"
    /\ UNCHANGED <<db, rw_readers, rw_wwait, txn_db, txn_db_mtx, cv_notified,
                   spurious, engine_lock, cfs, store, backups, budget,
                   build, adminVars, cacheVars>>

----------------------------------------------------------------------------
\* begin_transaction

RecvBegin(c) ==
    Recv(c, Request("begin_transaction", None, None, None, None, FALSE),
         "begin_lock_txn_db")

\* `while txn_db_lock.is_some() || transaction_lock.is_some()`
SlotsBusy == txn_db # None \/ transaction # NoTxn

\* Tasks parked in Condvar::wait.
Waiting == {t \in Conns : pc[t] \in {"begin_wait_txn_db", "begin_wait_txn"}}

\* Condvar::wait returns after notify_all, or spuriously.
Wake(c) == c \in cv_notified \/ spurious < MaxSpurious

Woken(c) ==
    /\ spurious' = IF c \in cv_notified THEN spurious ELSE spurious + 1
    /\ cv_notified' = cv_notified \ {c}

\* self.txn_db.lock()
begin_lock_txn_db(c) ==
    /\ pc[c] = "begin_lock_txn_db"
    /\ Lockable(txn_db_mtx)
    /\ IF txn_db_mtx = "poisoned"
       THEN /\ Reply(c, handle_begin_transaction(RErr(LOCK_TXN_DB)))
            /\ UNCHANGED txn_db_mtx
       ELSE /\ txn_db_mtx' = c
            /\ Goto(c, "begin_lock_txn")
            /\ UNCHANGED local
    /\ UNCHANGED <<db, rw_readers, rw_wwait, txn_db, transaction,
                   transaction_mtx, cv_notified, spurious, engine_lock, cfs,
                   store, backups, budget, build, adminVars, cacheVars>>

\* self.transaction.lock(), then the loop test: with a slot occupied the
\* first wait releases the txn_db mutex only.
begin_lock_txn(c) ==
    /\ pc[c] = "begin_lock_txn"
    /\ Lockable(transaction_mtx)
    /\ IF transaction_mtx = "poisoned"
       THEN /\ Reply(c, handle_begin_transaction(RErr(LOCK_TXN)))
            /\ txn_db_mtx' = "free"
            /\ UNCHANGED transaction_mtx
       ELSE /\ transaction_mtx' = c
            /\ UNCHANGED local
            /\ IF SlotsBusy
               THEN /\ txn_db_mtx' = "free"
                    /\ Goto(c, "begin_wait_txn_db")
               ELSE /\ Goto(c, "close")
                    /\ UNCHANGED txn_db_mtx
    /\ UNCHANGED <<db, rw_readers, rw_wwait, txn_db, transaction,
                   cv_notified, spurious, engine_lock, cfs, store,
                   backups, budget, build, adminVars, cacheVars>>

\* condvar.wait(txn_db_lock) returns with the txn_db mutex re-acquired; the
\* task goes straight into condvar.wait(transaction_lock).  A pthread
\* condition variable is bound to the first mutex it waited with, and the
\* second wait panics: both guards are dropped while unwinding.
begin_wait_txn_db(c) ==
    /\ pc[c] = "begin_wait_txn_db"
    /\ Wake(c)
    /\ Lockable(txn_db_mtx)
    /\ Woken(c)
    /\ IF txn_db_mtx = "poisoned"
       THEN /\ Reply(c, handle_begin_transaction(RErr(CV_TXN_DB)))
            /\ transaction_mtx' = "free"
            /\ UNCHANGED txn_db_mtx
       ELSE IF build = "pthread"
       THEN /\ txn_db_mtx' = "poisoned"
            /\ transaction_mtx' = "poisoned"
            /\ Goto(c, "panicked")
            /\ UNCHANGED local
       ELSE /\ txn_db_mtx' = c
            /\ transaction_mtx' = "free"
            /\ Goto(c, "begin_wait_txn")
            /\ UNCHANGED local
    /\ UNCHANGED <<db, rw_readers, rw_wwait, txn_db, transaction,
                   engine_lock, cfs, store, backups, budget, build,
                   adminVars, cacheVars>>

\* condvar.wait(transaction_lock) returns with the transaction mutex
\* re-acquired, and the loop test runs again.
begin_wait_txn(c) ==
    /\ pc[c] = "begin_wait_txn"
    /\ Wake(c)
    /\ Lockable(transaction_mtx)
    /\ Woken(c)
    /\ IF transaction_mtx = "poisoned"
       THEN /\ Reply(c, handle_begin_transaction(RErr(CV_TXN)))
            /\ txn_db_mtx' = "free"
            /\ UNCHANGED transaction_mtx
       ELSE /\ transaction_mtx' = c
            /\ UNCHANGED local
            /\ IF SlotsBusy
               THEN /\ txn_db_mtx' = "free"
                    /\ Goto(c, "begin_wait_txn_db")
               ELSE /\ Goto(c, "close")
                    /\ UNCHANGED txn_db_mtx
    /\ UNCHANGED <<db, rw_readers, rw_wwait, txn_db, transaction,
                   engine_lock, cfs, store, backups, budget, build,
                   adminVars, cacheVars>>

\* A faulty close that leaves the handle in its slot.
db_after_close_kept(d) == d

\* close: db.write() waits for the readers to leave; dropping the handle
\* releases the engine's LOCK file.
db_after_close(d) == None

lock_after_close(d, l) == IF d # None THEN "free" ELSE l

\* Where close's caller continues: begin_transaction opens the
\* transactional engine, reload reopens the normal one.
AfterClose(c) ==
    IF req[c].action = "begin_transaction" THEN "begin_open" ELSE "reopen"

close(c) ==
    /\ pc[c] \in {"close", "close_blocked"}
    /\ pc[c] = "close_blocked" => CanWrite
    /\ IF CanWrite
       THEN /\ db' = db_after_close(db)
            /\ engine_lock' = lock_after_close(db, engine_lock)
            /\ rw_wwait' = rw_wwait \ {c}
            /\ Goto(c, AfterClose(c))
       ELSE /\ rw_wwait' = rw_wwait \cup {c}
            /\ Goto(c, "close_blocked")
            /\ UNCHANGED <<db, engine_lock>>
    /\ UNCHANGED <<rw_readers, txn_db, transaction, txn_db_mtx,
                   transaction_mtx, cv_notified, spurious, cfs, store,
                   backups, local, budget, build, adminVars, cacheVars>>

\* Opening an engine on db_path takes its LOCK file: the open fails while
\* another handle of this process holds it, or when the engine reports an
\* error of its own.
OpenResult(l, ok) ==
    IF l # "free" THEN RErr(LOCK_HELD)
    ELSE IF ~ok THEN RErr(ENGINE_ERROR) ELSE ROk(None)

\* begin_transaction_internal, then both slots are filled; on failure the
\* method returns with the engine closed.
begin_open(c) ==
    /\ pc[c] = "begin_open"
    /\ \E ok \in BOOLEAN :
         LET r == OpenResult(engine_lock, ok)
         IN  /\ txn_db' = IF r.ok THEN "open" ELSE txn_db
             /\ transaction' = IF r.ok THEN SomeTxn(EmptyTxn) ELSE transaction
             /\ engine_lock' = IF r.ok THEN "txn" ELSE engine_lock
             /\ Reply(c, handle_begin_transaction(r))
    /\ txn_db_mtx' = "free"
    /\ transaction_mtx' = "free"
    /\ UNCHANGED <<db, rw_readers, rw_wwait, cv_notified, spurious, cfs,
                   store, backups, budget, build, adminVars, cacheVars>>

----------------------------------------------------------------------------
\* commit_transaction / rollback_transaction

\* The handlers answer "Missing txn_id" without calling the manager when the
\* request carries no txn_id.
MISSING_TXN_ID == "Missing txn_id"

RecvCommit(c) ==
    \E action \in {"commit_transaction", "rollback_transaction"} :
        Recv(c, Request(action, None, None, None, None, FALSE),
             "commit_lock_txn")

RecvCommitNoId(c) ==
    /\ pc[c] = "idle"
    /\ budget[c] > 0
    /\ script[c] = <<>>
    /\ budget' = [budget EXCEPT ![c] = @ - 1]
    /\ resp' = [resp EXCEPT ![c] = Err(MISSING_TXN_ID)]
    /\ \E action \in {"commit_transaction", "rollback_transaction"} :
         trail' = IF trail.owner = None THEN trail
                  ELSE TrailEntry(TrailRecv(c),
                           Request(action, None, None, None, None, FALSE),
                           Err(MISSING_TXN_ID))
    /\ UNCHANGED script
    /\ UNCHANGED <<db, rw_readers, rw_wwait, txn_db, transaction, txn_db_mtx,
                   transaction_mtx, cv_notified, spurious, engine_lock, cfs,
                   store, backups, pc, req, local, build, adminVars, cacheVars>>

NoTxnError(action) ==
    IF action = "commit_transaction" THEN NO_TXN_COMMIT ELSE NO_TXN_ROLLBACK

\* self.transaction.lock(); the slot is taken and the engine transaction is
\* committed (rollback: rolled back first, returning at once if that fails,
\* then committed empty).  `result` is kept for the return.
commit_lock_txn(c) ==
    /\ pc[c] = "commit_lock_txn"
    /\ Lockable(transaction_mtx)
    /\ IF transaction_mtx = "poisoned"
       THEN /\ Reply(c, handle_commit_transaction(RErr(LOCK_TXN)))
            /\ UNCHANGED <<transaction, transaction_mtx, store>>
       ELSE IF transaction = NoTxn
       THEN /\ Reply(c, handle_commit_transaction(
                            RErr(NoTxnError(req[c].action))))
            /\ UNCHANGED <<transaction, transaction_mtx, store>>
       ELSE \E rolled \in BOOLEAN, ok \in BOOLEAN :
              LET txn == IF req[c].action = "commit_transaction"
                         THEN transaction[1]
                         ELSE txn_rollback(transaction[1])
              IN  /\ transaction' = NoTxn
                  /\ IF req[c].action = "rollback_transaction" /\ ~rolled
                     THEN /\ Reply(c, handle_commit_transaction(
                                          RErr(ENGINE_ERROR)))
                          /\ UNCHANGED <<transaction_mtx, store>>
                     ELSE /\ store' = IF ok THEN txn_commit(store, txn)
                                      ELSE store
                          /\ local' = [local EXCEPT ![c] =
                                 IF ok THEN ROk(None) ELSE RErr(ENGINE_ERROR)]
                          /\ transaction_mtx' = c
                          /\ Goto(c, "commit_lock_txn_db")
    /\ UNCHANGED <<db, rw_readers, rw_wwait, txn_db, txn_db_mtx, cv_notified,
                   spurious, engine_lock, cfs, backups, budget, build,
                   adminVars, cacheVars>>

\* self.txn_db.lock(); both slots are cleared (dropping the transactional
\* handle releases the LOCK file) and the waiters are notified.  The normal
\* engine is reopened only when `result` is Ok.
commit_lock_txn_db(c) ==
    /\ pc[c] = "commit_lock_txn_db"
    /\ Lockable(txn_db_mtx)
    /\ IF txn_db_mtx = "poisoned"
       THEN /\ Reply(c, handle_commit_transaction(RErr(LOCK_TXN_DB)))
            /\ transaction_mtx' = "free"
            /\ UNCHANGED <<txn_db, transaction, txn_db_mtx, engine_lock,
                           cv_notified>>
       ELSE /\ txn_db' = None
            /\ transaction' = NoTxn
            /\ engine_lock' = lock_after_close(txn_db, engine_lock)
            /\ cv_notified' = cv_notified \cup Waiting
            /\ IF local[c].ok
               THEN /\ txn_db_mtx' = c
                    /\ Goto(c, "reopen")
                    /\ UNCHANGED <<transaction_mtx, local>>
               ELSE /\ Reply(c, handle_commit_transaction(local[c]))
                    /\ transaction_mtx' = "free"
                    /\ UNCHANGED txn_db_mtx
    /\ UNCHANGED <<db, rw_readers, rw_wwait, spurious, cfs, store,
                   backups, budget, build, adminVars, cacheVars>>

----------------------------------------------------------------------------
\* reopen, reload, backup, restore_backups

RELOAD_REOPEN == "Failed to reopen db"

\* What reopen's caller returns: commit and rollback hand the engine's error
\* on, reload replaces it.
ReopenReturn(action, r) ==
    IF r.ok \/ action \in {"commit_transaction", "rollback_transaction"}
    THEN r ELSE RErr(RELOAD_REOPEN)

\* The mutexes a returning commit or rollback releases.
Unlocked(c, m) == IF m = c THEN "free" ELSE m

\* reopen: the engine is opened first, then stored under db.write().
reopen(c) ==
    /\ pc[c] \in {"reopen", "reopen_blocked"}
    /\ pc[c] = "reopen_blocked" => CanWrite
    /\ \E ok \in BOOLEAN :
         LET r == IF pc[c] = "reopen" THEN OpenResult(engine_lock, ok)
                  ELSE ROk(None)
         IN  IF ~r.ok
             THEN /\ Reply(c, handle_request(req[c].action,
                                  ReopenReturn(req[c].action, r)))
                  /\ txn_db_mtx' = Unlocked(c, txn_db_mtx)
                  /\ transaction_mtx' = Unlocked(c, transaction_mtx)
                  /\ UNCHANGED <<db, engine_lock, rw_wwait>>
             ELSE IF CanWrite
             THEN /\ db' = "open"
                  /\ engine_lock' = "normal"
                  /\ rw_wwait' = rw_wwait \ {c}
                  /\ Reply(c, handle_request(req[c].action,
                                  ReopenReturn(req[c].action, r)))
                  /\ txn_db_mtx' = Unlocked(c, txn_db_mtx)
                  /\ transaction_mtx' = Unlocked(c, transaction_mtx)
             ELSE /\ engine_lock' = "normal"
                  /\ rw_wwait' = rw_wwait \cup {c}
                  /\ Goto(c, "reopen_blocked")
                  /\ UNCHANGED <<db, txn_db_mtx, transaction_mtx, local>>
    /\ UNCHANGED <<rw_readers, txn_db, transaction, cv_notified, spurious,
                   cfs, store, backups, budget, build, adminVars, cacheVars>>

RecvBackup(c) ==
    Recv(c, Request("backup", None, None, None, None, FALSE), "backup")

RecvRestoreLatest(c) ==
    Recv(c, Request("restore_latest", None, None, None, None, FALSE),
         "restore")

\* backup: the backup engine copies the open engine under db.read().
backup(c) ==
    /\ pc[c] = "backup"
    /\ CanRead
    /\ IF db = None
       THEN /\ Reply(c, handle_backup(RErr(DB_CLOSED)))
            /\ UNCHANGED backups
       ELSE /\ backups' = Append(backups, store)
            /\ Reply(c, handle_backup(ROk(None)))
    /\ UNCHANGED <<db, rw_readers, rw_wwait, txn_db, transaction, txn_db_mtx,
                   transaction_mtx, cv_notified, spurious, engine_lock, cfs,
                   store, budget, build, adminVars, cacheVars>>

\* The backup a restore request asks for: the latest one, or the one with
\* the id in the request's options. The backup engine numbers its backups
\* from 1.
BackupWanted(r, bs) ==
    IF r.action = "restore" THEN IdOf(r, "backup_id") ELSE Len(bs)

\* A restore that leaves the files of db_path alone.
restore_from_backup_kept(s, bs, id) == s

\* backup_engine.restore_from_latest_backup / restore_from_backup: the
\* contents of db_path after it.
restore_from_backup(s, bs, id) == bs[id]

\* restore_latest_backup, restore_backup: the files of db_path are replaced
\* by the backup's first, with whatever handle is open at the time; then
\* reload().
restore(c) ==
    /\ pc[c] = "restore"
    /\ IF BackupWanted(req[c], backups) \notin 1 .. Len(backups)
       THEN /\ Reply(c, handle_request(req[c].action, RErr(NO_BACKUP)))
            /\ UNCHANGED store
       ELSE /\ store' = restore_from_backup(store, backups,
                                           BackupWanted(req[c], backups))
            /\ Goto(c, "close")
            /\ UNCHANGED local
    /\ UNCHANGED <<db, rw_readers, rw_wwait, txn_db, transaction, txn_db_mtx,
                   transaction_mtx, cv_notified, spurious, engine_lock, cfs,
                   backups, budget, build, adminVars, cacheVars>>

----------------------------------------------------------------------------
\* One frame read by a connection task.
Receive(c) ==
    \/ RecvPut(c)
    \/ RecvGet(c)
    \/ RecvDelete(c)
    \/ RecvBegin(c)
    \/ RecvCommit(c)
    \/ RecvCommitNoId(c)
    \/ RecvBackup(c)
    \/ RecvRestoreLatest(c)

\* One step of a connection task inside a handler.
Step(c) ==
    \/ db_read(c)
    \/ in_db_read(c)
    \/ txn_lock(c)
    \/ txn_cf_lock(c)
    \/ begin_lock_txn_db(c)
    \/ begin_lock_txn(c)
    \/ begin_wait_txn_db(c)
    \/ begin_wait_txn(c)
    \/ close(c)
    \/ begin_open(c)
    \/ commit_lock_txn(c)
    \/ commit_lock_txn_db(c)
    \/ reopen(c)
    \/ backup(c)
    \/ restore(c)

Next == \E c \in Conns : Receive(c) \/ Step(c)

Spec == Init /\ [][Next]_vars

----------------------------------------------------------------------------
\* Scripted clients: the sequences of tests/run.rs, over every key and value,
\* with the write inside the transaction tagged as transactional or not.

test_transaction(k, v, tagged, ending) ==
    << Request("begin_transaction", None, None, None, None, FALSE),
       Request("put", k, v, None, None, tagged),
       Request(ending, None, None, None, None, FALSE),
       Request("get", k, None, None, None, FALSE) >>

test_delete(k) ==
    << Request("delete", k, None, None, None, FALSE),
       Request("get", k, None, None, None, FALSE) >>

test_put_get(k, v, cf) ==
    << Request("put", k, v, cf, None, FALSE),
       Request("get", k, None, cf, None, FALSE) >>

\* The scripts that read back what they wrote or deleted.
PointScripts ==
    {test_delete(k) : k \in Keys}
    \cup {test_put_get(k, v, cf) :
            k \in Keys, v \in Vals, cf \in {None, NamedCf}}
    \cup {test_put_get(k, v, None) \o test_delete(k) :
            k \in Keys, v \in Vals}

Scripts ==
    {test_transaction(k, v, tagged, ending) :
        k \in Keys, v \in Vals, tagged \in BOOLEAN,
        ending \in {"commit_transaction", "rollback_transaction"}}
    \cup PointScripts

\* Runs in which connection c1 is a scripted client whose requests and
\* responses are recorded, and c2 sends up to MaxOtherOps requests of any
\* kind at any time.
InitSeq ==
    /\ InitManager
    /\ enabled = FALSE
    /\ \E sc \in Scripts :
         /\ script = [c \in Conns |-> IF c = "c1" THEN sc ELSE <<>>]
         /\ budget = [c \in Conns |->
                         IF c = "c1" THEN Len(sc) ELSE MaxOtherOps]
    /\ trail = [NoTrail EXCEPT !.owner = "c1"]

SpecSeq == InitSeq /\ [][Next]_vars

\* Runs checked for progress: c1 sends up to MaxLiveOps requests, c2
\* MaxOtherOps.  A task that can take a step inside a handler eventually
\* takes it: every connection task has a worker thread of its own, and a
\* runnable thread is scheduled.  Nothing obliges a client to send a
\* request, nor a condition variable to wake up spuriously.
InitLive ==
    /\ InitManager
    /\ enabled = FALSE
    /\ budget = [c \in Conns |-> IF c = "c1" THEN MaxLiveOps ELSE MaxOtherOps]
    /\ script = [c \in Conns |-> <<>>]
    /\ trail = NoTrail

Fairness == \A c \in Conns : WF_vars(Step(c) /\ spurious' = spurious)

LiveSpec == InitLive /\ [][Next]_vars /\ Fairness

----------------------------------------------------------------------------
\* Positions inside commit_transaction / rollback_transaction.
InCommit == {"commit_lock_txn", "commit_lock_txn_db", "reopen",
             "reopen_blocked"}

EndsTxn == {"commit_transaction", "rollback_transaction"}

\* Connection c's handler writes its response in this step.
Answers(c) == pc[c] # "idle" /\ pc'[c] = "idle"

\* C1 (I1): in every reachable state the normal-mode handle and the
\* transactional handle are never both open: db is Some implies txn_db is
\* None.
C1_OneEngineMode == db # None => txn_db = None

\* A reload (through restore_latest) has run into an open transaction: its
\* reopen was refused while the transactional handle is open.
C1_Witness ==
    \E c \in Conns :
        /\ txn_db # None
        /\ pc[c] = "idle"
        /\ req[c].action = "restore_latest"
        /\ resp[c] = Err(RELOAD_REOPEN)

C4_ReturnsInNormalMode ==
    [][\A c \in Conns :
          (/\ Answers(c)
           /\ req[c].action \in EndsTxn
           /\ pc[c] \in InCommit
           /\ pc[c] = "commit_lock_txn" => transaction # NoTxn)
          => (transaction' = NoTxn /\ txn_db' = None /\ db' # None)]_vars

----------------------------------------------------------------------------
\* Claims about the requests a scripted client is served back to back.

Log == trail.log

\* Entries i .. i+n-1 of the record exist.
Has(i, n) == i >= 1 /\ i + n - 1 <= Len(Log)

IsBegin(e) == e.req.action = "begin_transaction" /\ e.resp.success

\* A put of the default family.
IsPut(e) == e.req.action = "put" /\ e.req.cf_name = None

\* An untagged get of key k in the default family, without a default value.
IsPlainGet(e, k) ==
    /\ e.req.action = "get"
    /\ e.req.key = k
    /\ e.req.cf_name = None
    /\ e.req.default = None
    /\ ~e.req.txn

\* begin; put; commit answered success; get of the put's key.
Committed(i) ==
    /\ Has(i, 4)
    /\ IsBegin(Log[i])
    /\ IsPut(Log[i + 1])
    /\ Log[i + 2].req.action = "commit_transaction"
    /\ Log[i + 2].resp.success
    /\ IsPlainGet(Log[i + 3], Log[i + 1].req.key)

\* C5: any put between a connection's successful
\* begin_transaction and its commit_transaction succeeds, and after the
\* commit succeeds get(k) returns the value put.
C5_PutCommitted ==
    \A i \in 1..Len(Log) :
        /\ (Has(i, 2) /\ IsBegin(Log[i]) /\ IsPut(Log[i + 1]))
           => Log[i + 1].resp = Ok(None)
        /\ Committed(i) => Log[i + 3].resp = Ok(Log[i + 1].req.value)

\* begin; put of a key absent before; rollback answered success; get.
RolledBack(i) ==
    /\ Has(i, 4)
    /\ IsBegin(Log[i])
    /\ IsPut(Log[i + 1])
    /\ Log[i].before[<<DefaultCf, Log[i + 1].req.key>>] = None
    /\ Log[i + 2].req.action = "rollback_transaction"
    /\ Log[i + 2].resp.success
    /\ IsPlainGet(Log[i + 3], Log[i + 1].req.key)

\* C6: for a key absent before, begin_transaction; put inside the
\* transaction; rollback_transaction; get without a default answers
\* success:false with 'Key not found'.
C6_RolledBackInvisible ==
    \A i \in 1..Len(Log) :
        RolledBack(i) => Log[i + 3].resp = Err(KEY_NOT_FOUND)

\* The four requests have been served, the put having gone through the
\* transaction.
C6_Witness ==
    /\ RolledBack(1)
    /\ Log[2].req.txn
    /\ Log[2].resp = Ok(None)
    /\ Log[4].resp = Err(KEY_NOT_FOUND)

\* An untagged delete of the default family.
IsPlainDelete(e) ==
    e.req.action = "delete" /\ e.req.cf_name = None /\ ~e.req.txn

\* C10 (P2): with the engine open in normal mode, delete(k) succeeds whether
\* or not k is present, and a following get(k) with no default answers
\* success:false with 'Key not found'.
C10_DeleteThenGet ==
    \A i \in 1..Len(Log) :
        (IsPlainDelete(Log[i]) /\ Log[i].normal)
        => /\ Log[i].resp = Ok(None)
           /\ (Has(i, 2) /\ IsPlainGet(Log[i + 1], Log[i].req.key))
              => Log[i + 1].resp = Err(KEY_NOT_FOUND)

\* A key that was present has been deleted and then looked up.
C10_Witness ==
    \E i \in 1..Len(Log) :
        /\ Has(i, 2)
        /\ IsPlainDelete(Log[i])
        /\ Log[i].before[<<DefaultCf, Log[i].req.key>>] # None
        /\ Log[i].resp = Ok(None)
        /\ IsPlainGet(Log[i + 1], Log[i].req.key)
        /\ Log[i + 1].resp = Err(KEY_NOT_FOUND)

----------------------------------------------------------------------------
\* Claims about progress.

\* Connection c is parked in begin_transaction's wait loop.
BeginBlocked(c) == pc[c] \in {"begin_wait_txn_db", "begin_wait_txn"}

\* Connection d has called commit_transaction or rollback_transaction and
\* the call has not returned.
Ending(d) == req[d].action \in EndsTxn /\ pc[d] \in InCommit

\* C2 (I2): a begin_transaction that found a transaction active and waits
\* gets to return once another connection commits or rolls back.
C2_BlockedBeginReturns ==
    \A c \in Conns :
        (BeginBlocked(c) /\ \E d \in Conns \ {c} : Ending(d))
        ~> (pc[c] = "idle")

\* C7: a tagged put, get or delete that found no transaction gets to complete
\* once another connection calls begin_transaction.
C7_TaggedRetryCompletes ==
    \A c \in Conns :
        (/\ pc[c] = "txn_retry"
         /\ \E d \in Conns \ {c} :
              req[d].action = "begin_transaction" /\ pc[d] # "idle")
        ~> (pc[c] = "idle")

\* C8: a transaction does not stay open for ever when no client ends it: the
\* slot is emptied again.
C8_TransactionExpires == (transaction # NoTxn) ~> (transaction = NoTxn)

----------------------------------------------------------------------------
\* The cache layer (cache/cache.rs) and its task queue (queue.rs).

\* TaskQueue::add_task's Task, in the shape process_tasks hands it to the
\* manager: put(key, value, cf_name, None) or delete(key, cf_name, None).
Task(task_type, key, value, cf_name) ==
    Request(task_type, key, value, cf_name, None, FALSE)

\* An entry's expiry is set to now + ttl: it becomes the last to expire.
Touch(l, cell) == SelectSeq(l, LAMBDA x : x # cell) \o <<cell>>

Without(l, cell) == SelectSeq(l, LAMBDA x : x # cell)

\* A guard that outlives the call that took it.
drop_guard_kept(t) == t

\* Each method of CacheLayer takes the write guard of `data` into a local
\* that is dropped when the method returns.
drop_guard(t) == "free"

\* CacheLayer::put (enabled): insert with a fresh expiry, enqueue a Put.
cache_put(ch, lv, q, key, value, cf_name) ==
    LET cell == <<CfOf(cf_name), key>>
    IN  [cache |-> [ch EXCEPT ![cell] = value],
         live |-> Touch(lv, cell),
         queue |-> Append(q, Task("put", key, value, cf_name))]

\* A get that returns the value and leaves the entry's expiry as it was.
cache_get_untouched(ch, lv, key, cf_name) ==
    [value |-> ch[<<CfOf(cf_name), key>>], live |-> lv]

\* CacheLayer::get (enabled): a hit extends the expiry and returns the value,
\* whether or not the entry had expired.
cache_get(ch, lv, key, cf_name) ==
    LET cell == <<CfOf(cf_name), key>>
    IN  [value |-> ch[cell],
         live |-> IF ch[cell] # None THEN Touch(lv, cell) ELSE lv]

\* CacheLayer::delete (enabled): remove the entry, enqueue a Delete.
cache_delete(ch, lv, q, key, cf_name) ==
    LET cell == <<CfOf(cf_name), key>>
    IN  [cache |-> [ch EXCEPT ![cell] = None],
         live |-> Without(lv, cell),
         queue |-> Append(q, Task("delete", key, None, cf_name))]

\* CacheLayer::cleanup: retain the entries whose expiry lies ahead.
cleanup(ch, lv) ==
    [cell \in Cells |->
        IF \E i \in 1..Len(lv) : lv[i] = cell THEN ch[cell] ELSE None]

\* handle_put with the cache enabled: the cache is populated and the client
\* is answered; the engine is written by the drain task.
cached_put(c) ==
    /\ pc[c] = "cache_put"
    /\ data_lock = "free"
    /\ data_lock' = drop_guard(c)
    /\ LET out == cache_put(cache, live, queue, req[c].key, req[c].value,
                            req[c].cf_name)
       IN  /\ cache' = out.cache
           /\ live' = out.live
           /\ queue' = out.queue
    /\ Reply(c, handle_put(ROk(None)))
    /\ UNCHANGED <<db, rw_readers, rw_wwait, txn_db, transaction, txn_db_mtx,
                   transaction_mtx, cv_notified, spurious, engine_lock, cfs,
                   store, backups, budget, build, adminVars, enabled>>

\* handle_get with the cache enabled: a hit is answered from the cache, a
\* miss goes to the manager.
cached_get(c) ==
    /\ pc[c] = "cache_get"
    /\ data_lock = "free"
    /\ data_lock' = drop_guard(c)
    /\ LET out == cache_get(cache, live, req[c].key, req[c].cf_name)
       IN  /\ live' = out.live
           /\ IF out.value # None
              THEN Reply(c, handle_get(ROk(out.value)))
              ELSE /\ Goto(c, PointEntry(req[c].txn))
                   /\ UNCHANGED local
    /\ UNCHANGED <<db, rw_readers, rw_wwait, txn_db, transaction, txn_db_mtx,
                   transaction_mtx, cv_notified, spurious, engine_lock, cfs,
                   store, backups, budget, build,
                   adminVars, enabled, cache, queue>>

\* ... and the value the manager returned is put into the cache.
cache_writeback(c) ==
    /\ pc[c] = "cache_writeback"
    /\ data_lock = "free"
    /\ data_lock' = drop_guard(c)
    /\ LET out == cache_put(cache, live, queue, req[c].key, local[c].val,
                            req[c].cf_name)
       IN  /\ cache' = out.cache
           /\ live' = out.live
           /\ queue' = out.queue
    /\ Reply(c, handle_get(local[c]))
    /\ UNCHANGED <<db, rw_readers, rw_wwait, txn_db, transaction, txn_db_mtx,
                   transaction_mtx, cv_notified, spurious, engine_lock, cfs,
                   store, backups, budget, build, adminVars, enabled>>

\* handle_delete with the cache enabled.
cached_delete(c) ==
    /\ pc[c] = "cache_delete"
    /\ data_lock = "free"
    /\ data_lock' = drop_guard(c)
    /\ LET out == cache_delete(cache, live, queue, req[c].key, req[c].cf_name)
       IN  /\ cache' = out.cache
           /\ live' = out.live
           /\ queue' = out.queue
    /\ Reply(c, handle_delete(ROk(None)))
    /\ UNCHANGED <<db, rw_readers, rw_wwait, txn_db, transaction, txn_db_mtx,
                   transaction_mtx, cv_notified, spurious, engine_lock, cfs,
                   store, backups, budget, build, adminVars, enabled>>

\* process_tasks: the drain task receives the next task and calls the
\* manager's untagged put or delete with it.
process_tasks ==
    /\ pc[Drain] = "idle"
    /\ queue # <<>>
    /\ queue' = Tail(queue)
    /\ req' = [req EXCEPT ![Drain] = Head(queue)]
    /\ pc' = [pc EXCEPT ![Drain] = "db_read"]
    /\ UNCHANGED <<db, rw_readers, rw_wwait, txn_db, transaction, txn_db_mtx,
                   transaction_mtx, cv_notified, spurious, engine_lock, cfs,
                   store, backups, resp, local, budget, script, build,
                   adminVars,
                   enabled, cache, live, data_lock, trail>>

\* Time passes: the entry that was touched longest ago reaches its expiry.
Expire ==
    /\ live # <<>>
    /\ live' = Tail(live)
    /\ UNCHANGED <<db, rw_readers, rw_wwait, txn_db, transaction, txn_db_mtx,
                   transaction_mtx, cv_notified, spurious, engine_lock, cfs,
                   store, backups, pc, req, resp, local, budget, script,
                   build, adminVars, enabled, cache, queue, data_lock,
                   trail>>

\* The sweep task wakes up and evicts the expired entries.
Sweep ==
    /\ enabled
    /\ data_lock = "free"
    /\ data_lock' = drop_guard("sweep")
    /\ cache' = cleanup(cache, live)
    /\ cache' # cache
    /\ trail' = IF trail.owner = None THEN trail
                ELSE [trail EXCEPT !.swept = TRUE]
    /\ UNCHANGED <<db, rw_readers, rw_wwait, txn_db, transaction, txn_db_mtx,
                   transaction_mtx, cv_notified, spurious, engine_lock, cfs,
                   store, backups, pc, req, resp, local, budget, script,
                   build, adminVars, enabled, live, queue>>

CacheStep(c) ==
    \/ cached_put(c)
    \/ cached_get(c)
    \/ cache_writeback(c)
    \/ cached_delete(c)

Background ==
    \/ process_tasks
    \/ db_read(Drain)
    \/ in_db_read(Drain)
    \/ Expire
    \/ Sweep

\* The point operations, through the cache or past it, and the start of a
\* transaction.
PointStep(c) ==
    \/ RecvPut(c)
    \/ RecvGet(c)
    \/ RecvDelete(c)
    \/ db_read(c)
    \/ in_db_read(c)
    \/ txn_lock(c)
    \/ CacheStep(c)
    \/ RecvBegin(c)
    \/ begin_lock_txn_db(c)
    \/ begin_lock_txn(c)
    \/ close(c)
    \/ begin_open(c)

NextCache == (\E c \in Conns : PointStep(c)) \/ Background

\* Runs with the cache enabled or disabled: c1 is a scripted client that
\* reads back what it wrote, c2 sends up to MaxOtherOps requests at any time:
\* a put, a get, a delete or a begin_transaction. No transaction is begun
\* while another is active, so the condition variable is not used and the
\* build makes no difference.
InitCache ==
    /\ InitManager
    /\ build = "futex"
    /\ enabled \in BOOLEAN
    /\ \E k \in Keys, v \in Vals, cf \in {None, NamedCf} :
         /\ script = [c \in Conns |->
                         IF c = "c1" THEN test_put_get(k, v, cf) ELSE <<>>]
         /\ budget = [c \in Conns |->
                         IF c = "c1" THEN Len(script[c]) ELSE MaxOtherOps]
    /\ trail = [NoTrail EXCEPT !.owner = "c1"]

SpecCache == InitCache /\ [][NextCache]_vars

----------------------------------------------------------------------------
\* put(k, v, c) answered success, then get(k, c) without a default, served
\* back to back on one connection.
PutThenGet(i) ==
    /\ Has(i, 2)
    /\ Log[i].req.action = "put"
    /\ Log[i].resp.success
    /\ Log[i + 1].req.action = "get"
    /\ Log[i + 1].req.key = Log[i].req.key
    /\ Log[i + 1].req.cf_name = Log[i].req.cf_name
    /\ Log[i + 1].req.default = None

\* C9 (P1): after put(k, v, c) has been answered with success, the next
\* get(k, c) on the same connection returns v, with the cache enabled or
\* disabled, no other request being served in between.
C9_RoundTrip ==
    \A i \in 1..Len(Log) :
        PutThenGet(i) => Log[i + 1].resp = Ok(Log[i].req.value)

----------------------------------------------------------------------------
\* Column families (db_manager.rs create_column_family, drop_column_family).

MISSING_CF_NAME == "Missing column family name"

handle_create_column_family(r) == IF r.ok THEN Ok(None) ELSE Err(r.val)

handle_drop_column_family(r) == IF r.ok THEN Ok(None) ELSE Err(r.val)

\* A create_column_family that hands an existing family to the engine, which
\* refuses to create it again.
create_column_family_again(d, fams, cf_name, ok) ==
    IF d = None THEN [res |-> RErr(DB_CLOSED), cfs |-> fams]
    ELSE IF ok /\ cf_name \notin fams
    THEN [res |-> ROk(None), cfs |-> fams \cup {cf_name}]
    ELSE [res |-> RErr(ENGINE_ERROR), cfs |-> fams]

\* create_column_family under db.write(): an existing family is left alone,
\* a new one is created unless the engine reports an error.
create_column_family(d, fams, cf_name, ok) ==
    IF d = None THEN [res |-> RErr(DB_CLOSED), cfs |-> fams]
    ELSE IF cf_name \in fams THEN [res |-> ROk(None), cfs |-> fams]
    ELSE IF ok THEN [res |-> ROk(None), cfs |-> fams \cup {cf_name}]
    ELSE [res |-> RErr(ENGINE_ERROR), cfs |-> fams]

\* drop_column_family under db.write(): an absent family is a success; an
\* existing one is dropped with its contents, unless the engine reports an
\* error, as it does for the default family.
drop_column_family(d, fams, s, cf_name, ok) ==
    IF d = None THEN [res |-> RErr(DB_CLOSED), cfs |-> fams, store |-> s]
    ELSE IF cf_name \notin fams
    THEN [res |-> ROk(None), cfs |-> fams, store |-> s]
    ELSE IF ok /\ cf_name # DefaultCf
    THEN [res |-> ROk(None), cfs |-> fams \ {cf_name},
          store |-> [cell \in Cells |->
                        IF cell[1] = cf_name THEN None ELSE s[cell]]]
    ELSE [res |-> RErr(ENGINE_ERROR), cfs |-> fams, store |-> s]

RecvCreateCf(c) ==
    \E cf \in Cfs :
        Recv(c, Request("create_column_family", None, None, cf, None, FALSE),
             "cf_write")

RecvDropCf(c) ==
    \E cf \in Cfs :
        Recv(c, Request("drop_column_family", None, None, cf, None, FALSE),
             "cf_write")

\* Both handlers answer a request without cf_name at once.
RecvCfNoName(c) ==
    /\ pc[c] = "idle"
    /\ budget[c] > 0
    /\ script[c] = <<>>
    /\ budget' = [budget EXCEPT ![c] = @ - 1]
    /\ resp' = [resp EXCEPT ![c] = Err(MISSING_CF_NAME)]
    /\ \E action \in {"create_column_family", "drop_column_family"} :
         trail' = IF trail.owner = None THEN trail
                  ELSE TrailEntry(TrailRecv(c),
                           Request(action, None, None, None, None, FALSE),
                           Err(MISSING_CF_NAME))
    /\ UNCHANGED <<db, rw_readers, rw_wwait, txn_db, transaction, txn_db_mtx,
                   transaction_mtx, cv_notified, spurious, engine_lock, cfs,
                   store, backups, pc, req, local, script, build, adminVars,
                   cacheVars>>

\* create_column_family / drop_column_family: db.write() waits for the
\* readers to leave; the call runs under the write guard.
cf_write(c) ==
    /\ pc[c] \in {"cf_write", "cf_write_blocked"}
    /\ pc[c] = "cf_write_blocked" => CanWrite
    /\ IF CanWrite
       THEN /\ rw_wwait' = rw_wwait \ {c}
            /\ \E ok \in BOOLEAN :
                 IF req[c].action = "create_column_family"
                 THEN LET out == create_column_family(db, cfs,
                                     req[c].cf_name, ok)
                      IN  /\ cfs' = out.cfs
                          /\ store' = store
                          /\ Reply(c, handle_create_column_family(out.res))
                 ELSE LET out == drop_column_family(db, cfs, store,
                                     req[c].cf_name, ok)
                      IN  /\ cfs' = out.cfs
                          /\ store' = out.store
                          /\ Reply(c, handle_drop_column_family(out.res))
       ELSE /\ rw_wwait' = rw_wwait \cup {c}
            /\ Goto(c, "cf_write_blocked")
            /\ UNCHANGED <<cfs, store, local>>
    /\ UNCHANGED <<db, rw_readers, txn_db, transaction, txn_db_mtx,
                   transaction_mtx, cv_notified, spurious, engine_lock,
                   backups, budget, build, adminVars, cacheVars>>

CfStep(c) ==
    \/ RecvCreateCf(c)
    \/ RecvDropCf(c)
    \/ RecvCfNoName(c)
    \/ cf_write(c)

NextCf == Next \/ \E c \in Conns : CfStep(c)

\* Two connections sending any of the requests above, column family
\* requests included.
SpecCf == InitLive /\ [][NextCf]_vars

InCfWrite(c) == pc[c] \in {"cf_write", "cf_write_blocked"}

\* The call is a no-op by the claim: a create of an existing family or a
\* drop of an absent one, with the normal engine open.
CfNoOp(c) ==
    /\ db # None
    /\ \/ /\ req[c].action = "create_column_family"
          /\ req[c].cf_name \in cfs
       \/ /\ req[c].action = "drop_column_family"
          /\ req[c].cf_name \notin cfs

\* C11 (P3): with the normal engine open, create_column_family of an existing
\* family and drop_column_family of an absent one answer success and leave
\* the column families and their contents as they were.
C11_CfIdempotent ==
    [][\A c \in Conns :
          (InCfWrite(c) /\ Answers(c) /\ CfNoOp(c))
          => (resp'[c] = Ok(None) /\ cfs' = cfs /\ store' = store
                /\ db' = db)]_vars

\* c1 has created the default family again and c2 has dropped a family that
\* was never created, both answered with success.
C11_Witness ==
    /\ pc["c1"] = "idle" /\ budget["c1"] = MaxLiveOps - 1
    /\ req["c1"].action = "create_column_family"
    /\ req["c1"].cf_name = DefaultCf
    /\ resp["c1"] = Ok(None)
    /\ pc["c2"] = "idle"
    /\ req["c2"].action = "drop_column_family"
    /\ req["c2"].cf_name = NamedCf
    /\ resp["c2"] = Ok(None)
    /\ cfs = {DefaultCf}

----------------------------------------------------------------------------
\* The write batch (db_manager.rs write_batch_*): one batch, shared by every
\* connection. A staged operation is <<"put", cell, value>> or
\* <<"delete", cell, None>>. Staging a merge takes the same path as staging a
\* put and is not modelled.

WB_UNINIT == "WriteBatch not initialized"

\* db.write(batch): the staged operations reach the store in their order.
RECURSIVE wb_apply(_, _)
wb_apply(s, b) ==
    IF b = <<>> THEN s
    ELSE wb_apply([s EXCEPT ![b[1][2]] =
                       IF b[1][1] = "put" THEN b[1][3] ELSE None], Tail(b))

\* Staging into a batch of the caller's own, which takes the place of the
\* shared one.
wb_stage_own(d, fams, wb, op, key, value, cf_name) ==
    IF d = None THEN [res |-> RErr(DB_CLOSED), batch |-> wb]
    ELSE IF wb = NoBatch THEN [res |-> RErr(WB_UNINIT), batch |-> wb]
    ELSE IF CfOf(cf_name) \notin fams
    THEN [res |-> RErr(CF_NOT_FOUND), batch |-> wb]
    ELSE [res |-> ROk(None),
          batch |-> SomeBatch(<<<<op, <<CfOf(cf_name), key>>, value>>>>)]

\* Staging, common to write_batch_put and write_batch_delete: the engine
\* must be open, the slot occupied and the named family known.
wb_stage(d, fams, wb, op, key, value, cf_name) ==
    IF d = None THEN [res |-> RErr(DB_CLOSED), batch |-> wb]
    ELSE IF wb = NoBatch THEN [res |-> RErr(WB_UNINIT), batch |-> wb]
    ELSE IF CfOf(cf_name) \notin fams
    THEN [res |-> RErr(CF_NOT_FOUND), batch |-> wb]
    ELSE [res |-> ROk(None),
          batch |-> SomeBatch(Append(wb[1],
                        <<op, <<CfOf(cf_name), key>>, value>>))]

write_batch_put(d, fams, wb, key, value, cf_name) ==
    wb_stage(d, fams, wb, "put", key, value, cf_name)

write_batch_delete(d, fams, wb, key, cf_name) ==
    wb_stage(d, fams, wb, "delete", key, None, cf_name)

\* A write_batch_write that installs a fresh batch whether or not it found
\* one.
write_batch_write_fresh(d, wb, s, ok) ==
    IF d = None THEN [res |-> RErr(DB_CLOSED), batch |-> wb, store |-> s]
    ELSE IF wb = NoBatch
    THEN [res |-> RErr(WB_UNINIT), batch |-> SomeBatch(<<>>), store |-> s]
    ELSE IF ok
    THEN [res |-> ROk(None), batch |-> SomeBatch(<<>>),
          store |-> wb_apply(s, wb[1])]
    ELSE [res |-> RErr(ENGINE_ERROR), batch |-> NoBatch, store |-> s]

\* A write_batch_write that takes the batch out of the slot before it looks
\* at the db slot.
write_batch_write_taken(d, wb, s, ok) ==
    IF d = None THEN [res |-> RErr(DB_CLOSED), batch |-> NoBatch, store |-> s]
    ELSE IF wb = NoBatch
    THEN [res |-> RErr(WB_UNINIT), batch |-> wb, store |-> s]
    ELSE IF ok
    THEN [res |-> ROk(None), batch |-> SomeBatch(<<>>),
          store |-> wb_apply(s, wb[1])]
    ELSE [res |-> RErr(ENGINE_ERROR), batch |-> NoBatch, store |-> s]

\* A write_batch_write whose failing write has stored the first staged
\* operation already.
write_batch_write_torn(d, wb, s, ok) ==
    IF d = None THEN [res |-> RErr(DB_CLOSED), batch |-> wb, store |-> s]
    ELSE IF wb = NoBatch
    THEN [res |-> RErr(WB_UNINIT), batch |-> wb, store |-> s]
    ELSE IF ok
    THEN [res |-> ROk(None), batch |-> SomeBatch(<<>>),
          store |-> wb_apply(s, wb[1])]
    ELSE [res |-> RErr(ENGINE_ERROR), batch |-> NoBatch,
          store |-> wb_apply(s, IF wb[1] = <<>> THEN <<>>
                                ELSE <<Head(wb[1])>>)]

\* write_batch_write: the batch is taken out of the slot and written; a
\* fresh batch is installed after a successful write, while an engine error
\* returns at once and leaves the slot empty.
write_batch_write(d, wb, s, ok) ==
    IF d = None THEN [res |-> RErr(DB_CLOSED), batch |-> wb, store |-> s]
    ELSE IF wb = NoBatch
    THEN [res |-> RErr(WB_UNINIT), batch |-> wb, store |-> s]
    ELSE IF ok
    THEN [res |-> ROk(None), batch |-> SomeBatch(<<>>),
          store |-> wb_apply(s, wb[1])]
    ELSE [res |-> RErr(ENGINE_ERROR), batch |-> NoBatch, store |-> s]

\* write_batch_clear: empties the batch in place.
write_batch_clear(wb) ==
    IF wb = NoBatch THEN [res |-> RErr(WB_UNINIT), batch |-> wb]
    ELSE [res |-> ROk(None), batch |-> SomeBatch(<<>>)]

\* write_batch_destroy: empties the slot.
write_batch_destroy(wb) == [res |-> ROk(None), batch |-> NoBatch]

\* handle_write_batch_*: every handler wraps the manager's result alike.
handle_write_batch(r) == IF r.ok THEN Ok(None) ELSE Err(r.val)

WbStaging == {"write_batch_put", "write_batch_delete"}
WbActions ==
    WbStaging \cup {"write_batch_write", "write_batch_clear",
                    "write_batch_destroy"}

\* What the manager's call for request r returns, and the batch and the
\* store it leaves.
wb_call(r, d, fams, wb, s, ok) ==
    CASE r.action = "write_batch_put" ->
             [store |-> s] @@
             write_batch_put(d, fams, wb, r.key, r.value, r.cf_name)
      [] r.action = "write_batch_delete" ->
             [store |-> s] @@ write_batch_delete(d, fams, wb, r.key, r.cf_name)
      [] r.action = "write_batch_write" -> write_batch_write(d, wb, s, ok)
      [] r.action = "write_batch_clear" ->
             [store |-> s] @@ write_batch_clear(wb)
      [] OTHER -> [store |-> s] @@ write_batch_destroy(wb)

RecvWbPut(c) ==
    \E k \in Keys, v \in Vals, cf \in {None, NamedCf} :
        Recv(c, Request("write_batch_put", k, v, cf, None, FALSE), "wb")

RecvWbDelete(c) ==
    \E k \in Keys, cf \in {None, NamedCf} :
        Recv(c, Request("write_batch_delete", k, None, cf, None, FALSE), "wb")

RecvWbEnd(c) ==
    \E action \in WbActions \ WbStaging :
        Recv(c, Request(action, None, None, None, None, FALSE), "wb")

\* The manager's call: staging and writing take db.read() first and then
\* the batch mutex, which no task holds while it blocks; clear and destroy
\* take the mutex only.
write_batch_op(c) ==
    /\ pc[c] = "wb"
    /\ req[c].action \in WbStaging \cup {"write_batch_write"} => CanRead
    /\ \E ok \in BOOLEAN :
         LET out == wb_call(req[c], db, cfs, write_batch, store, ok)
         IN  /\ write_batch' = out.batch
             /\ store' = out.store
             /\ Reply(c, handle_write_batch(out.res))
    /\ UNCHANGED <<db, rw_readers, rw_wwait, txn_db, transaction, txn_db_mtx,
                   transaction_mtx, cv_notified, spurious, engine_lock, cfs,
                   backups, budget, build, iterators, iterator_id_counter,
                   issued, auth_token, merge_call, wire, buffer, outbox, cacheVars>>

BatchStep(c) ==
    \/ RecvWbPut(c)
    \/ RecvWbDelete(c)
    \/ RecvWbEnd(c)
    \/ write_batch_op(c)

WbReq(action, k, v) == Request(action, k, v, None, None, FALSE)

\* Two puts staged, written, and read back.
batch_put_write(k1, v1, k2, v2) ==
    << WbReq("write_batch_put", k1, v1), WbReq("write_batch_put", k2, v2),
       WbReq("write_batch_write", None, None),
       Request("get", k1, None, None, None, FALSE),
       Request("get", k2, None, None, None, FALSE) >>

\* A put staged, the batch written or cleared, and a put or a delete staged
\* in the batch that follows.
batch_reuse(ending, later) ==
    << WbReq("write_batch_put", "k1", "v1"), WbReq(ending, None, None),
       later >>

\* The batch destroyed, and a request that uses it afterwards.
batch_destroyed(later) ==
    << WbReq("write_batch_put", "k1", "v1"),
       WbReq("write_batch_destroy", None, None), later >>

WbLater ==
    {WbReq("write_batch_put", "k2", "v2"),
     WbReq("write_batch_delete", "k1", None)}

BatchScripts ==
    {batch_put_write(k1, v1, k2, v2) :
        k1 \in Keys, v1 \in Vals, k2 \in Keys, v2 \in Vals}
    \cup {batch_reuse(ending, later) :
            ending \in {"write_batch_write", "write_batch_clear"},
            later \in WbLater}
    \cup {batch_destroyed(later) :
            later \in WbLater
                \cup {WbReq("write_batch_write", None, None),
                      WbReq("write_batch_clear", None, None)}}

NextBatch ==
    \E c \in Conns :
        \/ RecvPut(c)
        \/ RecvGet(c)
        \/ RecvDelete(c)
        \/ db_read(c)
        \/ in_db_read(c)
        \/ txn_lock(c)
        \/ RecvBegin(c)
        \/ begin_lock_txn_db(c)
        \/ begin_lock_txn(c)
        \/ close(c)
        \/ begin_open(c)
        \/ BatchStep(c)

\* Runs in which c1 is a scripted client that uses the write batch and c2
\* sends up to MaxOtherOps requests at any time: a point operation, a
\* begin_transaction or a request on the same batch.
InitBatch ==
    /\ InitManager
    /\ build = "futex"
    /\ enabled = FALSE
    /\ \E sc \in BatchScripts :
         /\ script = [c \in Conns |-> IF c = "c1" THEN sc ELSE <<>>]
         /\ budget = [c \in Conns |->
                         IF c = "c1" THEN Len(sc) ELSE MaxOtherOps]
    /\ trail = [NoTrail EXCEPT !.owner = "c1"]

SpecBatch == InitBatch /\ [][NextBatch]_vars

\* A put staged in the default family and accepted.
IsWbPut(e) ==
    /\ e.req.action = "write_batch_put"
    /\ e.req.cf_name = None
    /\ e.resp.success

\* The record starts with two accepted puts of distinct keys and the write
\* of the batch, served back to back, and the request after it has arrived.
TwoPutsWritten ==
    /\ Has(1, 4)
    /\ IsWbPut(Log[1])
    /\ IsWbPut(Log[2])
    /\ Log[1].req.key # Log[2].req.key
    /\ Log[3].req.action = "write_batch_write"

Holds(s, e) == s[<<DefaultCf, e.req.key>>] = e.req.value

\* C12 (P4): write_batch_write is all-or-nothing. After write_batch_put(k1,
\* v1) and write_batch_put(k2, v2) were accepted, the store after a
\* successful write_batch_write holds both pairs, and after a failed one it
\* is what it was when the write arrived, so neither pair was added. No
\* state in between exists for a reader on any connection to observe: the
\* step in which any write_batch_write answers either stores every staged
\* operation and answers success, or stores nothing and answers an error,
\* and no other write batch request changes the store.
C12_BatchAtomic ==
    /\ [](TwoPutsWritten =>
            IF Log[3].resp.success
            THEN Holds(Log[4].before, Log[1]) /\ Holds(Log[4].before, Log[2])
            ELSE Log[4].before = Log[3].before)
    /\ [][\A c \in Conns :
            (pc[c] = "wb" /\ Answers(c))
            => IF /\ req[c].action = "write_batch_write"
                  /\ resp'[c].success
               THEN store' = wb_apply(store, write_batch[1])
               ELSE store' = store]_vars

\* c1 staged two puts in the empty store, wrote them and read both back.
C12_Witness ==
    /\ TwoPutsWritten
    /\ Has(1, 5)
    /\ Log[3].resp.success
    /\ Log[1].before[<<DefaultCf, Log[1].req.key>>] = None
    /\ Log[1].before[<<DefaultCf, Log[2].req.key>>] = None
    /\ Log[4].resp = Ok(Log[1].req.value)
    /\ Log[5].resp = Ok(Log[2].req.value)

\* C13 (I4): a write_batch_write or write_batch_clear that found the batch
\* slot occupied leaves it occupied when it returns, with success or with
\* an error, so that until write_batch_destroy is called no
\* write_batch_put, write_batch_merge or write_batch_delete fails with
\* 'WriteBatch not initialized'.
C13_BatchSlotKept ==
    [][\A c \in Conns :
          (/\ pc[c] = "wb"
           /\ Answers(c)
           /\ req[c].action \in {"write_batch_write", "write_batch_clear"}
           /\ write_batch # NoBatch)
          => write_batch' # NoBatch]_vars

----------------------------------------------------------------------------
\* Iterators (db_manager.rs create_iterator .. iterator_prev): a map from
\* ids to a stored position and direction. Every call builds a fresh engine
\* iterator over the default family from the stored position.

\* The largest iterator id a client names in a request.
MaxIterId == 1

IterIds == 0 .. MaxIterId

ITER_NOT_FOUND == "Iterator ID not found"
INVALID == <<"invalid", "invalid">>

\* The position of a new iterator: vec![].
EmptyKey == ""

\* The keys in the engine's (bytewise) order; the empty key sorts first.
KeyOrder == <<"k1", "k2", "k3">>

Rank(k) ==
    IF k = EmptyKey THEN 0
    ELSE CHOOSE i \in 1 .. Len(KeyOrder) : KeyOrder[i] = k

Reversed(q) == [i \in 1 .. Len(q) |-> q[Len(q) + 1 - i]]

Present(s, k) == <<DefaultCf, k>> \in DOMAIN s /\ s[<<DefaultCf, k>>] # None

\* db.iterator(IteratorMode::From(from, dir)): the keys the engine iterator
\* yields, in order.
Entries(s, from, dir) ==
    IF dir = "Forward"
    THEN SelectSeq(KeyOrder,
                   LAMBDA k : Rank(k) >= Rank(from) /\ Present(s, k))
    ELSE SelectSeq(Reversed(KeyOrder),
                   LAMBDA k : Rank(k) <= Rank(from) /\ Present(s, k))

\* format!("{}:{}", k, v)
Entry(s, k) == <<k, s[<<DefaultCf, k>>]>>

IterPut(its, id, e) ==
    [i \in DOMAIN its \cup {id} |-> IF i = id THEN e ELSE its[i]]

IterRemove(its, id) ==
    IF DOMAIN its \ {id} = {} THEN <<>>
    ELSE [i \in DOMAIN its \ {id} |-> its[i]]

\* A create_iterator that hands out the smallest id not in use.
create_iterator_reuse(its, counter) ==
    LET id == CHOOSE n \in 0 .. counter :
                  n \notin DOMAIN its /\ \A m \in 0 .. n - 1 : m \in DOMAIN its
    IN  [res |-> ROk(<<id>>),
         its |-> IterPut(its, id, [pos |-> EmptyKey, dir |-> "Forward"]),
         counter |-> counter + 1]

\* create_iterator: fetch_add on the counter under the iterators mutex.
create_iterator(its, counter) ==
    [res |-> ROk(<<counter>>),
     its |-> IterPut(its, counter, [pos |-> EmptyKey, dir |-> "Forward"]),
     counter |-> counter + 1]

destroy_iterator(its, counter, id) ==
    IF id \in DOMAIN its
    THEN [res |-> ROk(None), its |-> IterRemove(its, id), counter |-> counter]
    ELSE [res |-> RErr(ITER_NOT_FOUND), its |-> its, counter |-> counter]

\* The checks iterator_seek, iterator_next and iterator_prev start with.
iter_refused(d, its, id) ==
    IF d = None THEN RErr(DB_CLOSED)
    ELSE IF id \notin DOMAIN its THEN RErr(ITER_NOT_FOUND)
    ELSE ROk(None)

\* The first entry es yields after skipping `skip` entries becomes the
\* iterator's position (with direction dir) and the result; without such an
\* entry the iterator is left alone.
iter_land(its, counter, s, id, es, skip, dir) ==
    IF Len(es) > skip
    THEN [res |-> ROk(Entry(s, es[skip + 1])),
          its |-> IterPut(its, id, [pos |-> es[skip + 1], dir |-> dir]),
          counter |-> counter]
    ELSE [res |-> ROk(INVALID), its |-> its, counter |-> counter]

\* An iterator_seek that lands on the entry after the first one.
iterator_seek_after(d, its, counter, s, id, key, dir) ==
    IF ~iter_refused(d, its, id).ok
    THEN [res |-> iter_refused(d, its, id), its |-> its, counter |-> counter]
    ELSE iter_land(its, counter, s, id, Entries(s, key, dir), 1, dir)

iterator_seek(d, its, counter, s, id, key, dir) ==
    IF ~iter_refused(d, its, id).ok
    THEN [res |-> iter_refused(d, its, id), its |-> its, counter |-> counter]
    ELSE iter_land(its, counter, s, id, Entries(s, key, dir), 0, dir)

\* iterator_next: a fresh engine iterator from the stored position in the
\* stored direction; its first entry is dropped ("Move to current
\* position") and the second one returned.
iterator_next(d, its, counter, s, id) ==
    IF ~iter_refused(d, its, id).ok
    THEN [res |-> iter_refused(d, its, id), its |-> its, counter |-> counter]
    ELSE iter_land(its, counter, s, id,
                   Entries(s, its[id].pos, its[id].dir), 1, its[id].dir)

\* An iterator_prev that moves in the stored direction.
iterator_prev_stored(d, its, counter, s, id) ==
    IF ~iter_refused(d, its, id).ok
    THEN [res |-> iter_refused(d, its, id), its |-> its, counter |-> counter]
    ELSE iter_land(its, counter, s, id,
                   Entries(s, its[id].pos, its[id].dir), 1, its[id].dir)

\* iterator_prev: the same in reverse, whatever the stored direction, which
\* it keeps.
iterator_prev(d, its, counter, s, id) ==
    IF ~iter_refused(d, its, id).ok
    THEN [res |-> iter_refused(d, its, id), its |-> its, counter |-> counter]
    ELSE iter_land(its, counter, s, id,
                   Entries(s, its[id].pos, "Reverse"), 1, its[id].dir)

\* handle_create_iterator .. handle_iterator_prev.
handle_iterator(r) == IF r.ok THEN Ok(r.val) ELSE Err(r.val)

IterReq(action, key, id) ==
    [action |-> action, key |-> key, value |-> None, cf_name |-> None,
     default |-> None, txn |-> FALSE, iterator_id |-> id]

IterReads ==
    {"iterator_seek", "iterator_seek_for_prev", "iterator_next",
     "iterator_prev"}

iter_call(r, d, its, counter, s) ==
    CASE r.action = "create_iterator" -> create_iterator(its, counter)
      [] r.action = "destroy_iterator" ->
             destroy_iterator(its, counter, IdOf(r, "iterator_id"))
      [] r.action = "iterator_seek" ->
             iterator_seek(d, its, counter, s, IdOf(r, "iterator_id"), r.key,
                           "Forward")
      [] r.action = "iterator_seek_for_prev" ->
             iterator_seek(d, its, counter, s, IdOf(r, "iterator_id"), r.key,
                           "Reverse")
      [] r.action = "iterator_next" ->
             iterator_next(d, its, counter, s, IdOf(r, "iterator_id"))
      [] OTHER -> iterator_prev(d, its, counter, s, IdOf(r, "iterator_id"))

RecvCreateIter(c) == Recv(c, IterReq("create_iterator", None, 0), "iter")

RecvDestroyIter(c) ==
    \E id \in IterIds : Recv(c, IterReq("destroy_iterator", None, id), "iter")

RecvSeek(c) ==
    \E action \in {"iterator_seek", "iterator_seek_for_prev"},
       k \in Keys, id \in IterIds :
        Recv(c, IterReq(action, k, id), "iter")

RecvMove(c) ==
    \E action \in {"iterator_next", "iterator_prev"}, id \in IterIds :
        Recv(c, IterReq(action, None, id), "iter")

\* The manager's call: seek, next and prev take db.read() first and then
\* the iterators mutex, which no task holds while it blocks; create and
\* destroy take the mutex only.
iterator_op(c) ==
    /\ pc[c] = "iter"
    /\ req[c].action \in IterReads => CanRead
    /\ LET out == iter_call(req[c], db, iterators, iterator_id_counter, store)
       IN  /\ iterators' = out.its
           /\ iterator_id_counter' = out.counter
           /\ issued' = IF req[c].action = "create_iterator"
                        THEN Append(issued, out.res.val[1])
                        ELSE issued
           /\ Reply(c, handle_iterator(out.res))
    /\ UNCHANGED <<db, rw_readers, rw_wwait, txn_db, transaction, txn_db_mtx,
                   transaction_mtx, cv_notified, spurious, engine_lock, cfs,
                   store, backups, budget, build, write_batch, auth_token, merge_call,
                   wire, buffer, outbox, cacheVars>>

IterStep(c) ==
    \/ RecvCreateIter(c)
    \/ RecvDestroyIter(c)
    \/ RecvSeek(c)
    \/ RecvMove(c)
    \/ iterator_op(c)

\* An iterator created, positioned on k, and moved on after another request.
iter_walk(k, between) ==
    << IterReq("create_iterator", None, 0),
       IterReq("iterator_seek", k, 0), between,
       IterReq("iterator_next", None, 0) >>

\* An iterator created and positioned on k twice, with a put of k between.
iter_reseek(k, v) ==
    << IterReq("create_iterator", None, 0),
       IterReq("iterator_seek", k, 0),
       Request("put", k, v, None, None, FALSE),
       IterReq("iterator_seek", k, 0) >>

\* Iterators created before and after one was destroyed.
iter_ids ==
    << IterReq("create_iterator", None, 0),
       IterReq("create_iterator", None, 0),
       IterReq("destroy_iterator", None, 0),
       IterReq("create_iterator", None, 0) >>

IterScripts ==
    {iter_walk(k, Request("delete", k2, None, None, None, FALSE)) :
        k \in Keys, k2 \in Keys}
    \cup {iter_walk(k, Request("put", k2, v, None, None, FALSE)) :
            k \in Keys, k2 \in Keys, v \in Vals}
    \cup {iter_reseek(k, v) : k \in Keys, v \in Vals}
    \cup {iter_ids}

NextIter ==
    \E c \in Conns :
        \/ RecvPut(c)
        \/ RecvGet(c)
        \/ RecvDelete(c)
        \/ db_read(c)
        \/ in_db_read(c)
        \/ txn_lock(c)
        \/ RecvBegin(c)
        \/ begin_lock_txn_db(c)
        \/ begin_lock_txn(c)
        \/ close(c)
        \/ begin_open(c)
        \/ IterStep(c)

\* Runs in which c1 is a scripted client that uses an iterator and c2 sends
\* up to MaxOtherOps requests at any time: a point operation, a
\* begin_transaction or an iterator request. The database directory holds
\* any of the keys in the default family, with the value v1.
InitIter ==
    /\ InitOpen
    /\ auth_token = None
    /\ build = "futex"
    /\ enabled = FALSE
    /\ store \in {s \in [Cells -> {"v1", None}] :
                    \A cell \in Cells :
                        cell[1] # DefaultCf => s[cell] = None}
    /\ \E sc \in IterScripts :
         /\ script = [c \in Conns |-> IF c = "c1" THEN sc ELSE <<>>]
         /\ budget = [c \in Conns |->
                         IF c = "c1" THEN Len(sc) ELSE MaxOtherOps]
    /\ trail = [NoTrail EXCEPT !.owner = "c1"]

SpecIter == InitIter /\ [][NextIter]_vars

\* C15 (I3): the ids create_iterator returns are strictly increasing in
\* the order of the calls, hence pairwise distinct and never handed out
\* twice, also after destroy_iterator removed one and when two connections
\* create iterators concurrently; no iterator in the map has an id that was
\* not handed out.
C15_IdsIncrease ==
    /\ \A i \in DOMAIN issued, j \in DOMAIN issued :
          i < j => issued[i] < issued[j]
    /\ \A id \in DOMAIN iterators : \E i \in DOMAIN issued : issued[i] = id

\* Three iterators were created, one of them after the first was destroyed,
\* and another connection created one as well.
C15_Witness ==
    /\ Len(issued) = 4
    /\ 0 \notin DOMAIN iterators
    /\ req["c1"].action = "create_iterator"
    /\ req["c2"].action = "create_iterator"
    /\ pc["c1"] = "idle"
    /\ pc["c2"] = "idle"
    /\ script["c1"] = <<>>

\* The present keys of the default family after pos, in order.
Greater(s, pos) ==
    SelectSeq(KeyOrder, LAMBDA k : Rank(k) > Rank(pos) /\ Present(s, k))

\* C16: for an iterator that a forward seek has positioned on a key,
\* iterator_next returns the entry with the smallest key strictly greater
\* than the stored position in the store as it is at the call, and stores
\* that key as the new position, or returns 'invalid:invalid' if there is
\* no such key - whatever was put or deleted since the position was stored,
\* the stored key itself included.
C16_NextIsSuccessor ==
    [][\A c \in Conns :
          (/\ pc[c] = "iter"
           /\ Answers(c)
           /\ req[c].action = "iterator_next"
           /\ db # None
           /\ req[c].iterator_id \in DOMAIN iterators
           /\ iterators[req[c].iterator_id].dir = "Forward"
           /\ iterators[req[c].iterator_id].pos # EmptyKey)
          => LET id == req[c].iterator_id
                 after == Greater(store, iterators[id].pos)
             IN  IF after = <<>>
                 THEN resp'[c] = Ok(INVALID) /\ iterators' = iterators
                 ELSE /\ resp'[c] = Ok(Entry(store, after[1]))
                      /\ iterators'[id].pos = after[1]]_vars

\* A forward seek of key k on iterator id that found the iterator.
IsSeek(e, id, k) ==
    /\ e.req.action = "iterator_seek"
    /\ e.req.iterator_id = id
    /\ e.req.key = k
    /\ e.resp.success

\* Entries i .. i+2 of the record: a forward seek of a key on an existing
\* iterator, an accepted untagged put of that key in the default family,
\* and the same seek again.
SeekPutSeek(i) ==
    /\ Has(i, 3)
    /\ Log[i].req.action = "iterator_seek"
    /\ IsSeek(Log[i], Log[i].req.iterator_id, Log[i].req.key)
    /\ IsPut(Log[i + 1])
    /\ ~Log[i + 1].req.txn
    /\ Log[i + 1].resp.success
    /\ Log[i + 1].req.key = Log[i].req.key
    /\ Log[i + 2].req = Log[i].req

\* C17 (P5): an iterator holds no snapshot. The next iterator_seek(id, k,
\* Forward) after a put that changed k, on an iterator that existed before
\* the put, returns k with the value that was put.
C17_SeekSeesPut ==
    \A i \in 1 .. Len(Log) :
        SeekPutSeek(i)
        => Log[i + 2].resp = Ok(<<Log[i].req.key, Log[i + 1].req.value>>)

\* c1 positioned its iterator on a key holding v1, put v2 under the key and
\* the second seek returned v2.
C17_Witness ==
    /\ SeekPutSeek(2)
    /\ Log[2].resp = Ok(<<Log[2].req.key, "v1">>)
    /\ Log[3].req.value = "v2"
    /\ Log[4].resp = Ok(<<Log[2].req.key, "v2">>)

----------------------------------------------------------------------------
\* Backup and restore, as a client uses them (tests/run.rs
\* test_backup_restore).

\* The largest backup id a client names in a restore request.
MaxBackupId == 1

RestoreReq(id) ==
    [action |-> "restore", key |-> None, value |-> None, cf_name |-> None,
     default |-> None, txn |-> FALSE, backup_id |-> id]

RecvRestore(c) ==
    \E id \in 0 .. MaxBackupId : Recv(c, RestoreReq(id), "restore")

\* A backup, a change of key k, a restore and a look at k.
test_backup_restore(k, change, restoring) ==
    << Request("backup", None, None, None, None, FALSE), change, restoring,
       Request("get", k, None, None, None, FALSE) >>

BackupScripts ==
    {test_backup_restore(k, change, restoring) :
        k \in Keys,
        change \in {Request("delete", k2, None, None, None, FALSE) :
                      k2 \in Keys}
                   \cup {Request("put", k2, v, None, None, FALSE) :
                           k2 \in Keys, v \in Vals},
        restoring \in {Request("restore_latest", None, None, None, None,
                               FALSE),
                       RestoreReq(1)}}

NextBackup ==
    \E c \in Conns :
        \/ RecvPut(c)
        \/ RecvGet(c)
        \/ RecvDelete(c)
        \/ db_read(c)
        \/ in_db_read(c)
        \/ txn_lock(c)
        \/ RecvBegin(c)
        \/ begin_lock_txn_db(c)
        \/ begin_lock_txn(c)
        \/ close(c)
        \/ begin_open(c)
        \/ RecvBackup(c)
        \/ RecvRestoreLatest(c)
        \/ RecvRestore(c)
        \/ backup(c)
        \/ restore(c)
        \/ reopen(c)

\* Runs in which c1 is a scripted client that makes a backup, changes a key,
\* restores and reads, and c2 sends up to MaxOtherOps requests at any time.
\* The database directory holds any of the keys in the default family, with
\* the value v1.
InitBackup ==
    /\ InitOpen
    /\ auth_token = None
    /\ build = "futex"
    /\ enabled = FALSE
    /\ store \in {s \in [Cells -> {"v1", None}] :
                    \A cell \in Cells :
                        cell[1] # DefaultCf => s[cell] = None}
    /\ \E sc \in BackupScripts :
         /\ script = [c \in Conns |-> IF c = "c1" THEN sc ELSE <<>>]
         /\ budget = [c \in Conns |->
                         IF c = "c1" THEN Len(sc) ELSE MaxOtherOps]
    /\ trail = [NoTrail EXCEPT !.owner = "c1"]

SpecBackup == InitBackup /\ [][NextBackup]_vars

\* An untagged put or delete of the default family.
IsChange(e) ==
    /\ e.req.action \in {"put", "delete"}
    /\ e.req.cf_name = None
    /\ ~e.req.txn

\* A restore of the latest backup, by that name or by its id, that
\* succeeded.
IsRestoreOfLatest(e) ==
    /\ e.req.action \in {"restore_latest", "restore"}
    /\ e.req.action = "restore" => e.req.backup_id = Len(backups)
    /\ e.resp.success

\* Entries i .. i+3 of the record: a backup, a put or a delete, a restore
\* of that backup and a get without a default.
BackupChangeRestoreGet(i) ==
    /\ Has(i, 4)
    /\ Log[i].req.action = "backup"
    /\ Log[i].resp.success
    /\ IsChange(Log[i + 1])
    /\ IsRestoreOfLatest(Log[i + 2])
    /\ Log[i + 3].req.action = "get"
    /\ IsPlainGet(Log[i + 3], Log[i + 3].req.key)

\* C18 (P7): after a successful backup, then any put or delete, then a
\* successful restore_latest (or restore of that backup's id), get(k)
\* returns what k held when the backup was made: its value then, or 'Key
\* not found' if it was absent then.
C18_RestoreUndoes ==
    \A i \in 1 .. Len(Log) :
        BackupChangeRestoreGet(i)
        => LET held == Log[i].before[<<DefaultCf, Log[i + 3].req.key>>]
           IN  Log[i + 3].resp =
                   IF held = None THEN Err(KEY_NOT_FOUND) ELSE Ok(held)

\* c1 backed up a key holding v1, deleted it, restored the backup and read
\* v1 again.
C18_Witness ==
    /\ BackupChangeRestoreGet(1)
    /\ Log[2].req.action = "delete"
    /\ Log[2].req.key = Log[4].req.key
    /\ Log[2].resp.success
    /\ Log[3].before[<<DefaultCf, Log[4].req.key>>] = None
    /\ Log[4].resp = Ok("v1")

----------------------------------------------------------------------------
\* handle_client and the token check of handle_request (server.rs): the
\* frames a client writes to its socket, the buffer the task reads them
\* into, and the responses it writes back. Connections stay open.

\* The frames one client sends.
MaxFrames == 2

UNAUTHORIZED == "Unauthorized"

\* The token the server may be configured with, and the tokens of requests:
\* none, the right one, another one.
Tokens == {None, "T", "X"}

\* A frame: a put or a get with a token; seq numbers the frames of one
\* connection in the order they were sent.
Frame(action, key, value, token, seq) ==
    [action |-> action, key |-> key, value |-> value, cf_name |-> None,
     default |-> None, txn |-> FALSE, token |-> token, seq |-> seq]

Frames(seq) ==
    {Frame("put", "k1", "v1", t, seq) : t \in Tokens}
    \cup {Frame("get", "k1", None, t, seq) : t \in Tokens}

\* An is_authorized that lets a request without a token pass.
is_authorized_absent(configured, token) ==
    configured = None \/ token = None \/ token = configured

\* is_authorized: with a token configured the request's token must equal
\* it; without one every request passes.
is_authorized(configured, token) ==
    IF configured # None THEN token = configured ELSE TRUE

\* A handle_client that takes the frame read last.
NextFrame_last(buf) == buf[Len(buf)]

\* buffer[..position]: the frame up to the first newline in the buffer.
NextFrame(buf) == Head(buf)

\* The rest of the buffer: split_off(position + 1).
SplitOff(buf) == Tail(buf)

\* The number of the frame the client sent last.
LastSeq(c) ==
    IF wire[c] # <<>> THEN wire[c][Len(wire[c])].seq
    ELSE IF buffer[c] # <<>> THEN buffer[c][Len(buffer[c])].seq
    ELSE IF req[c].action # "none" THEN req[c].seq
    ELSE 0

\* The response to the request taken last has been written.
Written(c) ==
    IF req[c].action = "none" THEN TRUE ELSE Len(outbox[c]) = req[c].seq

\* serde_json::from_slice::<Request>: the frame is a Request. A frame that
\* is not JSON, or has no action, is not.
Parsed(f) == f.action # "unparsable"

UNKNOWN_ACTION == "Unknown action"

\* The actions handle_request's match names.
Catalogue ==
    {"put", "get", "delete", "merge", "get_property", "keys", "all",
     "list_column_families", "create_column_family", "drop_column_family",
     "compact_range", "write_batch_put", "write_batch_merge",
     "write_batch_delete", "write_batch_write", "write_batch_clear",
     "write_batch_destroy", "create_iterator", "destroy_iterator",
     "iterator_seek", "iterator_seek_for_prev", "iterator_next",
     "iterator_prev", "backup", "restore_latest", "restore",
     "get_backup_info", "begin_transaction", "commit_transaction",
     "rollback_transaction"}

\* The client writes one more frame to its socket.
client_send(c) ==
    /\ pc[c] # "closed"
    /\ LastSeq(c) < MaxFrames
    /\ \E f \in Frames(LastSeq(c) + 1) :
         wire' = [wire EXCEPT ![c] = Append(@, f)]
    /\ UNCHANGED <<db, rw_readers, rw_wwait, txn_db, transaction, txn_db_mtx,
                   transaction_mtx, cv_notified, spurious, engine_lock, cfs,
                   store, backups, pc, req, resp, local, budget, script,
                   build, write_batch, iterators, iterator_id_counter,
                   issued, auth_token, merge_call, buffer, outbox, cacheVars, trail>>

\* socket.read_buf returns some of the bytes that have arrived; the task
\* takes the first frame out of its buffer, and handle_request turns an
\* unauthorized request down at once, answers an action its match does
\* not name, or routes the request to its handler. Frames
\* left in the buffer wait for the next read to return. A frame that does
\* not parse ends the loop, and with it the connection.
read_buf(c) ==
    /\ pc[c] = "idle"
    /\ Written(c)
    /\ wire[c] # <<>>
    /\ \E n \in 1 .. Len(wire[c]) :
         LET buf == buffer[c] \o SubSeq(wire[c], 1, n)
         IN  /\ wire' = [wire EXCEPT ![c] = SubSeq(@, n + 1, Len(@))]
             /\ buffer' = [buffer EXCEPT ![c] = SplitOff(buf)]
             /\ IF ~Parsed(NextFrame(buf))
                THEN /\ pc' = [pc EXCEPT ![c] = "closed"]
                     /\ UNCHANGED <<req, resp>>
                ELSE /\ req' = [req EXCEPT ![c] = NextFrame(buf)]
                     /\ IF ~is_authorized(auth_token, NextFrame(buf).token)
                        THEN /\ resp' = [resp EXCEPT ![c] =
                                             Err(UNAUTHORIZED)]
                             /\ pc' = pc
                        ELSE IF NextFrame(buf).action \notin Catalogue
                        THEN /\ resp' = [resp EXCEPT ![c] =
                                             Err(UNKNOWN_ACTION)]
                             /\ pc' = pc
                        ELSE /\ resp' = [resp EXCEPT ![c] = NoResp]
                             /\ pc' = [pc EXCEPT ![c] = PointEntry(FALSE)]
    /\ UNCHANGED <<db, rw_readers, rw_wwait, txn_db, transaction, txn_db_mtx,
                   transaction_mtx, cv_notified, spurious, engine_lock, cfs,
                   store, backups, local, budget, script, build, write_batch,
                   iterators, iterator_id_counter, issued, auth_token, merge_call,
                   outbox, cacheVars, trail>>

\* socket.write_all: the response handle_request returned goes out.
write_all(c) ==
    /\ pc[c] = "idle"
    /\ ~Written(c)
    /\ outbox' = [outbox EXCEPT
                     ![c] = Append(@, [resp |-> resp[c], seq |-> req[c].seq])]
    /\ UNCHANGED <<db, rw_readers, rw_wwait, txn_db, transaction, txn_db_mtx,
                   transaction_mtx, cv_notified, spurious, engine_lock, cfs,
                   store, backups, pc, req, resp, local, budget, script,
                   build, write_batch, iterators, iterator_id_counter,
                   issued, auth_token, merge_call, wire, buffer, cacheVars, trail>>

NextConn ==
    \E c \in Conns :
        \/ client_send(c)
        \/ read_buf(c)
        \/ write_all(c)
        \/ db_read(c)
        \/ in_db_read(c)

\* Runs of a server started with or without a token, with two clients that
\* send up to MaxFrames puts and gets each, as fast as they like.
InitConn ==
    /\ InitOpen
    /\ build = "futex"
    /\ enabled = FALSE
    /\ store \in [Cells -> {None}]
    /\ auth_token \in {None, "T"}
    /\ budget = [c \in Conns |-> 0]
    /\ script = [c \in Conns |-> <<>>]
    /\ trail = NoTrail

SpecConn == InitConn /\ [][NextConn]_vars

\* Connection c's task takes a frame out of its buffer in this step.
Takes(c) == req'[c] # req[c]

ManagerVars ==
    <<db, txn_db, transaction, cfs, store, backups, write_batch, iterators,
      iterator_id_counter, cache, queue>>

\* C19 (P8): with a token configured, every request whose token is absent
\* or differs from it is answered success:false with 'Unauthorized' without
\* being routed to a handler and without changing any state of the
\* manager; every other request, and every request when no token is
\* configured, is routed to its handler.
C19_TokenChecked ==
    [][\A c \in Conns :
          Takes(c)
          => IF auth_token # None /\ req'[c].token # auth_token
             THEN /\ resp'[c] = Err(UNAUTHORIZED)
                  /\ pc'[c] = "idle"
                  /\ ManagerVars' = ManagerVars
             ELSE /\ pc'[c] = PointEntry(FALSE)
                  /\ resp'[c] = NoResp]_vars

\* A server with a token has turned down a put without a token, which
\* stored nothing, and has served a put with the right one.
C19_Witness ==
    /\ auth_token = "T"
    /\ Len(outbox["c1"]) = 2
    /\ outbox["c1"][1].resp = Err(UNAUTHORIZED)
    /\ outbox["c1"][2].resp = Ok(None)
    /\ \E c \in Conns :
         /\ req[c].action = "put"
         /\ req[c].token = None
         /\ Written(c)
    /\ store[<<DefaultCf, "k1">>] = "v1"

\* C20: on one connection the i-th response written is the response to the
\* i-th request sent, and the task takes a request out of its buffer only
\* after the response to the previous one has been written.
C20_InOrder ==
    /\ [](\A c \in Conns :
            \A i \in 1 .. Len(outbox[c]) : outbox[c][i].seq = i)
    /\ [][\A c \in Conns :
            Takes(c) => (Len(outbox[c]) = req'[c].seq - 1 /\ pc[c] = "idle")
       ]_vars

\* c1's get and put have been answered in turn, and c2 has been served as
\* well.
C20_Witness ==
    /\ Len(outbox["c1"]) = 2
    /\ outbox["c1"][1].resp = Err(KEY_NOT_FOUND)
    /\ outbox["c1"][2].resp = Ok(None)
    /\ Len(outbox["c2"]) = 1
    /\ wire["c1"] = <<>>
    /\ buffer["c1"] = <<>>

----------------------------------------------------------------------------
\* Progress of one connection. The connection task is a tokio task on a
\* worker thread: a step it can take (a read that has data to return, a
\* handler step, a write) is eventually taken. Nothing obliges a client to
\* send another frame.

ServerStep(c) ==
    \/ read_buf(c)
    \/ write_all(c)
    \/ db_read(c)
    \/ in_db_read(c)

ConnFairness == \A c \in Conns : WF_vars(ServerStep(c))

LiveConn == InitConn /\ [][NextConn]_vars /\ ConnFairness

\* The server has read frame n of connection c off the socket.
Received(c, n) ==
    /\ LastSeq(c) >= n
    /\ wire[c] # <<>> => wire[c][1].seq > n

\* C21: every complete frame the server has received on a connection is
\* eventually answered (the n-th frame by the n-th response, C20), also
\* when several frames arrived in one read and the client sends nothing
\* more until it has its responses.
C21_EveryFrameAnswered ==
    \A c \in Conns, n \in 1 .. MaxFrames :
        Received(c, n) ~> (Len(outbox[c]) >= n)

----------------------------------------------------------------------------
\* Clients that also send frames that are not requests.

\* The client writes a frame that does not parse as a Request.
client_garbage(c) ==
    /\ pc[c] # "closed"
    /\ LastSeq(c) < MaxFrames
    /\ wire' = [wire EXCEPT
                   ![c] = Append(@, Frame("unparsable", None, None, None,
                                          LastSeq(c) + 1))]
    /\ UNCHANGED <<db, rw_readers, rw_wwait, txn_db, transaction, txn_db_mtx,
                   transaction_mtx, cv_notified, spurious, engine_lock, cfs,
                   store, backups, pc, req, resp, local, budget, script,
                   build, write_batch, iterators, iterator_id_counter,
                   issued, auth_token, merge_call, buffer, outbox, cacheVars, trail>>

NextParse == NextConn \/ \E c \in Conns : client_garbage(c)

SpecParse == InitConn /\ [][NextParse]_vars

\* C22: no failing request ends the session. After a request answered
\* with success:false, and after a frame that does not parse as a Request,
\* the connection task goes on reading; only EOF or a socket error, which
\* these runs do not have, ends its loop.
C22_SessionSurvives == \A c \in Conns : pc[c] # "closed"

----------------------------------------------------------------------------
\* The cache and the engine (cache/cache.rs put, queue.rs process_tasks).

\* The task the drain has received and not yet handed back, and the tasks
\* still in the channel.
Pending ==
    (IF pc[Drain] = "idle" THEN <<>> ELSE <<req[Drain]>>) \o queue

WillHold(cell, value) ==
    \E i \in 1..Len(Pending) :
        /\ Pending[i].action = "put"
        /\ <<CfOf(Pending[i].cf_name), Pending[i].key>> = cell
        /\ Pending[i].value = value

\* C23 (I5): with the cache enabled, for every entry of the cache either the
\* engine already holds the entry's value or a put of that value for that
\* key and family is still pending at the drain, also after a drain task's
\* engine call failed and the task was dropped.
C23_CacheBacked ==
    enabled =>
        \A cell \in Cells :
            cache[cell] # None =>
                (store[cell] = cache[cell] \/ WillHold(cell, cache[cell]))

----------------------------------------------------------------------------
\* Merges and the cache (cache/cache.rs clear, db_manager.rs merge).

\* CacheLayer::clear (enabled): remove the entry, enqueue nothing.
cache_clear(ch, lv, key, cf_name) ==
    LET cell == <<CfOf(cf_name), key>>
    IN  [cache |-> [ch EXCEPT ![cell] = None], live |-> Without(lv, cell)]

RecvMerge(c) ==
    \E k \in Keys :
        Recv(c, Request("merge", k, Patch, None, None, FALSE),
             IF enabled THEN "cache_clear" ELSE "db_read")

\* handle_merge with the cache enabled: the entry is invalidated, then the
\* merge goes to the manager.
cached_merge(c) ==
    /\ pc[c] = "cache_clear"
    /\ data_lock = "free"
    /\ data_lock' = drop_guard(c)
    /\ LET out == cache_clear(cache, live, req[c].key, req[c].cf_name)
       IN  /\ cache' = out.cache
           /\ live' = out.live
    /\ Goto(c, "db_read")
    /\ UNCHANGED <<db, rw_readers, rw_wwait, txn_db, transaction, txn_db_mtx,
                   transaction_mtx, cv_notified, spurious, engine_lock, cfs,
                   store, backups, local, budget, build, adminVars, enabled,
                   queue>>

\* A client that merges into a key it has just put, and reads it back.
put_merge_get(k, v) ==
    << Request("put", k, v, None, None, FALSE),
       Request("merge", k, Patch, None, None, FALSE),
       Request("get", k, None, None, None, FALSE) >>

NextMerge ==
    \/ NextCache
    \/ \E c \in Conns : RecvMerge(c) \/ cached_merge(c)

InitMerge ==
    /\ InitManager
    /\ build = "futex"
    /\ enabled \in BOOLEAN
    /\ \E k \in Keys :
         /\ script = [c \in Conns |->
                         IF c = "c1" THEN put_merge_get(k, "v1") ELSE <<>>]
         /\ budget = [c \in Conns |->
                         IF c = "c1" THEN Len(script[c]) ELSE MaxOtherOps]
    /\ trail = [NoTrail EXCEPT !.owner = "c1"]

SpecMerge == InitMerge /\ [][NextMerge]_vars

MergeThenGet(i) ==
    /\ Has(i, 2)
    /\ Log[i].req.action = "merge"
    /\ Log[i].resp.success
    /\ Log[i + 1].req.action = "get"
    /\ Log[i + 1].req.key = Log[i].req.key
    /\ Log[i + 1].req.cf_name = Log[i].req.cf_name

\* C24: once a merge of k has completed, the next get(k) on the connection
\* returns a merged document: neither the value that was cached before the
\* merge nor what a drain task still pending at the merge wrote over the
\* merge result.
C24_MergeNotOverwritten ==
    \A i \in 1..Len(Log) :
        MergeThenGet(i) =>
            /\ Log[i + 1].resp.success
            /\ \E j \in 2..Len(Docs) : Log[i + 1].resp.result = Docs[j]

----------------------------------------------------------------------------
\* The shape of responses (server.rs handle_request and its handlers).

\* The client sends a request whose action no handler is registered for.
client_unknown(c) ==
    /\ pc[c] # "closed"
    /\ LastSeq(c) < MaxFrames
    /\ \E t \in Tokens :
         wire' = [wire EXCEPT ![c] =
                     Append(@, Frame("frobnicate", "k1", None, t,
                                     LastSeq(c) + 1))]
    /\ UNCHANGED <<db, rw_readers, rw_wwait, txn_db, transaction, txn_db_mtx,
                   transaction_mtx, cv_notified, spurious, engine_lock, cfs,
                   store, backups, pc, req, resp, local, budget, script,
                   build, write_batch, iterators, iterator_id_counter,
                   issued, auth_token, merge_call, buffer, outbox, cacheVars, trail>>

NextShape == NextConn \/ \E c \in Conns : client_unknown(c)

SpecShape == InitConn /\ [][NextShape]_vars

\* success=true with no error, or success=false with no result and an
\* error.
Shaped(r) ==
    \/ r.success /\ r.error = None
    \/ ~r.success /\ r.result = None /\ r.error # None

AllShaped ==
    \A c \in Conns : \A i \in 1..Len(outbox[c]) : Shaped(outbox[c][i].resp)

\* The request connection c took last has been answered.
Answered(c) == pc[c] = "idle" /\ req[c].action # "none"

\* C25 as stated: every response written has one of the two shapes, and a
\* request whose action is outside the catalogue is always answered
\* success=false with 'Unknown action'.
C25_UnknownAlways ==
    /\ AllShaped
    /\ \A c \in Conns :
         (Answered(c) /\ req[c].action \notin Catalogue) =>
             resp[c] = Err(UNKNOWN_ACTION)

\* C25 (amended): every response written has one of the two shapes, and a
\* request that passes the token check and whose action is outside the
\* catalogue is always answered success=false with 'Unknown action'.
C25_ResponseShape ==
    /\ AllShaped
    /\ \A c \in Conns :
         (/\ Answered(c)
          /\ req[c].action \notin Catalogue
          /\ is_authorized(auth_token, req[c].token)) =>
             resp[c] = Err(UNKNOWN_ACTION)

\* A server with a token has answered an unknown action that carried the
\* token, after a get of an absent key was answered on the connection.
C25_Witness ==
    \E c \in Conns :
        /\ auth_token = "T"
        /\ Answered(c)
        /\ req[c].action \notin Catalogue
        /\ req[c].token = "T"
        /\ Len(outbox[c]) = 2
        /\ outbox[c][1].resp = Err(KEY_NOT_FOUND)

----------------------------------------------------------------------------
\* The order in which the manager's locks are taken (db_manager.rs
\* begin_transaction, commit_transaction, put_in_transaction).

\* Task c takes the mutex in this step.
Acquires(c, m) == m' = c /\ m # c

\* C26: a task that takes the txn_db mutex holds neither the transaction
\* mutex nor a guard of the engine rwlock, and a task that takes the
\* transaction mutex holds no guard of the engine rwlock: locks held
\* together were taken in the order txn_db, transaction, engine rwlock.
C26_LockOrder ==
    [][\A c \in Conns :
          /\ Acquires(c, txn_db_mtx) =>
                 (transaction_mtx # c /\ rw_readers[c] = 0)
          /\ Acquires(c, transaction_mtx) => rw_readers[c] = 0]_vars

----------------------------------------------------------------------------
\* Restore and the engine handle (db_manager.rs restore_latest_backup,
\* restore_backup).

\* Task c's restore writes the backup into db_path in this step.
Restoring(c) == pc[c] = "restore" /\ pc'[c] = "close"

\* C27: while a restore writes the backup into db_path the normal engine is
\* closed and no task is inside an engine operation; the engine is reopened
\* only by the restoring task, once the files are in place.
C27_RestoreExclusive ==
    [][\A c \in Conns :
          Restoring(c) =>
              /\ db = None
              /\ \A t \in Tasks : rw_readers[t] = 0]_vars

----------------------------------------------------------------------------
\* The engine's mode (db_manager.rs begin_transaction, close, reopen,
\* commit_transaction, rollback_transaction).

\* Open(Normal): the db slot holds a handle. Open(Txn): the txn_db slot
\* does. Closed: neither.
Mode ==
    IF db # None THEN (IF txn_db # None THEN "Both" ELSE "Normal")
    ELSE IF txn_db # None THEN "Txn" ELSE "Closed"

ModeEdges ==
    {<<"Normal", "Closed">>, <<"Closed", "Txn">>, <<"Txn", "Closed">>,
     <<"Closed", "Normal">>}

\* Task c returns from begin_transaction_internal in this step.
OpensTxn(c) ==
    pc[c] = "begin_open" /\ req[c].action = "begin_transaction"

\* Task c clears the slots in commit_transaction or rollback_transaction.
ClearsTxn(c) == pc[c] = "commit_lock_txn_db" /\ req[c].action \in EndsTxn

\* C28: every change of the engine's mode follows an edge of the cycle
\* Open(Normal) -> Closed -> Open(Txn) -> Closed -> Open(Normal);
\* Open(Txn) is entered only by begin_transaction and left only by commit
\* or rollback, and there is no step between Open(Normal) and Open(Txn).
C28_ModeCycle ==
    [][Mode' # Mode =>
          /\ <<Mode, Mode'>> \in ModeEdges
          /\ Mode' = "Txn" => \E c \in Conns : OpensTxn(c)
          /\ Mode = "Txn" => \E c \in Conns : ClearsTxn(c)]_vars

\* A commit has been answered with success and the engine is back in
\* normal mode.
C28_Witness ==
    \E c \in Conns :
        /\ pc[c] = "idle"
        /\ req[c].action = "commit_transaction"
        /\ resp[c].success
        /\ Mode = "Normal"

----------------------------------------------------------------------------
\* Requests that need the normal engine, sent while it is closed
\* (db_manager.rs get_property, get_all, get_keys, compact_range and the
\* calls modelled above).

ScanActions == {"keys", "all", "get_property", "compact_range"}

\* get_all / get_keys list the keys of the default family in order;
\* get_property and compact_range reach the named family. All four look at
\* the db slot first, and the handlers of the last two return no result.
engine_scan(action, d, fams, s, cf_name) ==
    IF d = None THEN RErr(DB_CLOSED)
    ELSE IF action \in {"keys", "all"}
    THEN ROk(SelectSeq(KeyOrder, LAMBDA k : Present(s, k)))
    ELSE IF cf_name # None /\ cf_name \notin fams THEN RErr(CF_NOT_FOUND)
    ELSE ROk(None)

handle_scan(r) == IF r.ok THEN Ok(r.val) ELSE Err(r.val)

RecvScan(c) ==
    \E action \in ScanActions, cf \in {None, NamedCf} :
        Recv(c, Request(action, None, "rocksdb.stats", cf, None, FALSE),
             "scan")

\* The manager's call under db.read().
scan(c) ==
    /\ pc[c] = "scan"
    /\ CanRead
    /\ Reply(c, handle_scan(engine_scan(req[c].action, db, cfs, store,
                                        req[c].cf_name)))
    /\ UNCHANGED <<db, rw_readers, rw_wwait, txn_db, transaction, txn_db_mtx,
                   transaction_mtx, cv_notified, spurious, engine_lock, cfs,
                   store, backups, budget, build, adminVars, cacheVars>>

\* What a client does first: it stages a put, creates an iterator or puts a
\* key ...
Setups ==
    {WbReq("write_batch_put", "k1", "v1"),
     IterReq("create_iterator", None, 0),
     Request("put", "k1", "v1", None, None, FALSE)}

\* ... and the request that needs the engine which it sends next.
EngineReqs ==
    {Request("put", "k2", "v2", None, None, FALSE),
     Request("get", "k1", None, None, None, FALSE),
     Request("delete", "k1", None, None, None, FALSE),
     Request("merge", "k1", Patch, None, None, FALSE),
     Request("keys", None, "rocksdb.stats", None, None, FALSE),
     Request("all", None, "rocksdb.stats", None, None, FALSE),
     Request("get_property", None, "rocksdb.stats", None, None, FALSE),
     Request("compact_range", None, "rocksdb.stats", None, None, FALSE),
     Request("create_column_family", None, None, NamedCf, None, FALSE),
     Request("drop_column_family", None, None, NamedCf, None, FALSE),
     WbReq("write_batch_put", "k2", "v2"),
     WbReq("write_batch_delete", "k1", None),
     WbReq("write_batch_write", None, None),
     IterReq("iterator_seek", "k1", 0),
     IterReq("iterator_seek_for_prev", "k1", 0),
     IterReq("iterator_next", None, 0),
     IterReq("iterator_prev", None, 0),
     Request("backup", None, None, None, None, FALSE)}

NextClosed ==
    \E c \in Conns :
        \/ RecvPut(c)
        \/ RecvGet(c)
        \/ RecvDelete(c)
        \/ RecvMerge(c)
        \/ db_read(c)
        \/ in_db_read(c)
        \/ txn_lock(c)
        \/ RecvBegin(c)
        \/ begin_lock_txn_db(c)
        \/ begin_lock_txn(c)
        \/ close(c)
        \/ begin_open(c)
        \/ RecvScan(c)
        \/ scan(c)
        \/ CfStep(c)
        \/ BatchStep(c)
        \/ IterStep(c)
        \/ RecvBackup(c)
        \/ backup(c)

\* Runs in which c1 sends a setup request and then a request that needs the
\* engine, and c2 sends up to MaxOtherOps requests at any time, a
\* begin_transaction among them.
InitClosed ==
    /\ InitManager
    /\ build = "futex"
    /\ enabled = FALSE
    /\ \E first \in Setups, second \in EngineReqs :
         /\ script = [c \in Conns |->
                         IF c = "c1" THEN <<first, second>> ELSE <<>>]
         /\ budget = [c \in Conns |-> IF c = "c1" THEN 2 ELSE MaxOtherOps]
    /\ trail = NoTrail

SpecClosed == InitClosed /\ [][NextClosed]_vars

\* Task c is at the manager's call of an operation that needs the normal
\* engine.
AtEngineCall(c) ==
    \/ pc[c] \in {"db_read", "scan", "cf_write", "cf_write_blocked", "backup"}
    \/ pc[c] = "wb" /\ req[c].action \in WbStaging \cup {"write_batch_write"}
    \/ pc[c] = "iter" /\ req[c].action \in IterReads

----------------------------------------------------------------------------
\* Expiry of cache entries (cache/cache.rs get, cleanup).

ReqCell(r) == <<CfOf(r.cf_name), r.key>>

\* Connection c's get finds its key in the cache in this step.
Hits(c) ==
    /\ pc[c] = "cache_get"
    /\ pc'[c] # "cache_get"
    /\ cache[ReqCell(req[c])] # None

\* The entry's expiry has not passed.
Unexpired(cell) == \E i \in 1..Len(live) : live[i] = cell

\* The sweep task evicts in this step.
Sweeps == cache' # cache /\ pc' = pc

\* C30: a cache hit gives the entry the latest expiry of all entries, so it
\* is unexpired until every other entry's ttl has run out; the sweep evicts
\* exactly the entries whose expiry has passed and keeps every other entry
\* with its value.
C30_TtlRefresh ==
    [][/\ \A c \in Conns :
             Hits(c) => (live' # <<>> /\ live'[Len(live')] = ReqCell(req[c]))
       /\ Sweeps =>
             \A cell \in Cells :
                 cache'[cell] = IF Unexpired(cell) THEN cache[cell]
                                ELSE None]_vars

\* The sweep has evicted an entry after c1's get was answered from the
\* cache, and the entry c1 read is still cached.
C30_Witness ==
    /\ trail.swept
    /\ Len(Log) >= 2
    /\ Log[Len(Log)].req.action = "get"
    /\ Log[Len(Log)].resp.success
    /\ cache[ReqCell(Log[Len(Log)].req)] = Log[Len(Log)].resp.result
    /\ Unexpired(ReqCell(Log[Len(Log)].req))

----------------------------------------------------------------------------
\* The merge operator on its own (db_manager.rs json_merge).

\* Operands in one call of the operator.
MaxOperands == 3

Operands == {Patch, PatchRemove, PatchHalf, NotAPatch}

OperandLists ==
    UNION {[1..n -> Operands] : n \in 1..MaxOperands}

\* The values the operator may find: none, one that is not JSON, and arrays.
Existing == {None, "v1", "[]", "[1]", "[1,1]"}

\* The engine calls the operator with the value it holds and the operands
\* that have accumulated for the key.
full_merge ==
    /\ \E existing \in Existing, operands \in OperandLists :
         merge_call' = [existing |-> existing, operands |-> operands,
                        result |-> json_merge(existing, operands)]
    /\ UNCHANGED <<db, rw_readers, rw_wwait, txn_db, transaction, txn_db_mtx,
                   transaction_mtx, cv_notified, spurious, engine_lock, cfs,
                   store, backups, pc, req, resp, local, budget, script,
                   build, write_batch, iterators, iterator_id_counter,
                   issued, auth_token, wire, buffer, outbox, cacheVars,
                   trail>>

InitOperator ==
    /\ InitManager
    /\ build = "futex"
    /\ enabled = FALSE
    /\ budget = [c \in Conns |-> 0]
    /\ script = [c \in Conns |-> <<>>]
    /\ trail = NoTrail

SpecOperator == InitOperator /\ [][full_merge]_vars

\* The document the operator has made of `existing` and the first n operands.
DocAfter(existing, operands, n) ==
    json_merge(existing, SubSeq(operands, 1, n))

\* Operand n of the call does not decode as a patch list, or its patch fails
\* to apply to the document the operands before it have made.
Skipped(existing, operands, n) ==
    \/ operands[n] \in {NotAPatch, PatchHalf}
    \/ operands[n] = PatchRemove /\ DocAfter(existing, operands, n - 1) = "[]"

Dropping(operands, n) ==
    SubSeq(operands, 1, n - 1) \o SubSeq(operands, n + 1, Len(operands))

----------------------------------------------------------------------------
\* The cache map's lock and the engine (cache/cache.rs, queue.rs).

\* The positions at which a task is inside a call of the engine manager.
InManager(t) ==
    pc[t] \notin {"idle", "cache_put", "cache_get", "cache_writeback",
                  "cache_delete", "cache_clear"}

\* A step of CacheLayer: get, put, delete, clear or the sweep's cleanup.
CacheLayerStep ==
    \/ \E c \in Conns :
          cached_put(c) \/ cached_get(c) \/ cache_writeback(c)
              \/ cached_delete(c) \/ cached_merge(c)
    \/ Sweep

\* What a call of the engine manager reads or writes.
engineVars ==
    <<db, rw_readers, rw_wwait, txn_db, transaction, engine_lock, cfs, store>>

----------------------------------------------------------------------------
\* The drain task's progress (queue.rs process_tasks).

\* The drain task and the connection handlers are tokio tasks: each of them
\* is scheduled again whenever it can take a step.
DrainFairness ==
    /\ WF_vars(process_tasks)
    /\ WF_vars(db_read(Drain))
    /\ WF_vars(in_db_read(Drain))
    /\ \A c \in Conns : WF_vars(PointStep(c))

\* Runs with the cache enabled in which c1 writes k1 to the default family
\* and reads it back while c2 sends up to MaxOtherOps requests.
InitDrain ==
    /\ InitCache
    /\ enabled
    /\ script["c1"] = test_put_get("k1", "v1", None)

LiveCache == InitDrain /\ [][NextCache]_vars /\ DrainFairness

\* C33 (temporal): the drain keeps running whatever its engine calls return:
\* a task it has received is applied or dropped and the drain returns to its
\* channel, so that under fair scheduling a non-empty queue is eventually
\* emptied.
C33_QueueDrained ==
    /\ (pc[Drain] # "idle") ~> (pc[Drain] = "idle")
    /\ (queue # <<>>) ~> (queue = <<>>)

----------------------------------------------------------------------------
\* Numeric options as the client writes them (server.rs parse_option and the
\* handlers that read iterator_id and backup_id).

\* The longest option text a client sends.
MaxText == 2

\* Requests the client sends in a run.
MaxOptOps == 3

Texts == UNION {[1 .. n -> OptChars] : n \in 0 .. MaxText}

Options == {<<>>} \cup {<<text>> : text \in Texts}

OptReq(action, key, options) ==
    [action |-> action, key |-> key, value |-> None, cf_name |-> None,
     default |-> None, txn |-> FALSE, options |-> options]

RecvOptIter(c) ==
    \E action \in IterReads \cup {"destroy_iterator"}, o \in Options :
        Recv(c, OptReq(action, IF action \in IterReads THEN "k1" ELSE None, o),
             "iter")

RecvOptRestore(c) ==
    \E o \in Options : Recv(c, OptReq("restore", None, o), "restore")

NextOption ==
    \E c \in Conns :
        \/ RecvCreateIter(c)
        \/ RecvOptIter(c)
        \/ iterator_op(c)
        \/ RecvBackup(c)
        \/ backup(c)
        \/ RecvOptRestore(c)
        \/ restore(c)
        \/ close(c)
        \/ reopen(c)

\* Runs in which c1 sends up to MaxOptOps requests: create_iterator, backup,
\* and the requests that name an iterator or a backup in their options, with
\* any text for the id or without it. The engine holds k1 and k2.
InitOption ==
    /\ InitOpen
    /\ auth_token = None
    /\ build = "futex"
    /\ enabled = FALSE
    /\ store = [cell \in Cells |->
                   IF cell[1] = DefaultCf THEN "v1" ELSE None]
    /\ script = [c \in Conns |-> <<>>]
    /\ budget = [c \in Conns |-> IF c = "c1" THEN MaxOptOps ELSE 0]
    /\ trail = NoTrail

SpecOption == InitOption /\ [][NextOption]_vars

\* The option is missing or its text is not a number: it is empty, or has a
\* character that is no digit other than a leading '+' before a digit.
BadOption(r) ==
    /\ "options" \in DOMAIN r
    /\ \/ r.options = <<>>
       \/ LET text == r.options[1]
          IN  \/ text = <<>>
              \/ text = <<"+">>
              \/ \E i \in 1 .. Len(text) :
                    ~IsDigit(text[i]) /\ ~(i = 1 /\ text[i] = "+")

\* C34 (error handling): a request whose numeric option is missing or does
\* not parse is not rejected for that: destroy_iterator and iterator_seek,
\* _seek_for_prev, _next and _prev do to iterator 0 and answer what they
\* would with iterator_id 0, and restore answers what a restore of backup 0
\* is answered, which no backup is numbered, and leaves the files alone.
C34_DefaultsToZero ==
    [][\A c \in Conns :
          /\ (iterator_op(c) /\ BadOption(req[c])) =>
                LET out == iter_call(IterReq(req[c].action, req[c].key, 0),
                                     db, iterators, iterator_id_counter,
                                     store)
                IN  /\ resp'[c] = handle_iterator(out.res)
                    /\ iterators' = out.its
          /\ (restore(c) /\ BadOption(req[c])) =>
                /\ resp'[c] = handle_request("restore", RErr(NO_BACKUP))
                /\ store' = store
                /\ pc'[c] = "idle"]_vars

\* An iterator_seek without a usable iterator_id has positioned iterator 0,
\* the only one there is, on k1.
C34_Witness ==
    /\ req["c1"].action = "iterator_seek"
    /\ BadOption(req["c1"])
    /\ resp["c1"] = Ok(<<"k1", "v1">>)
    /\ DOMAIN iterators = {0}
    /\ iterators[0].pos = "k1"

----------------------------------------------------------------------------
\* A second begin_transaction (main.rs handle_begin_transaction,
\* db_manager.rs begin_transaction).

TXN_IN_PROGRESS == "Transaction already in progress"

\* Connection c's begin_transaction evaluates its loop test in this step and
\* finds a slot occupied.
FindsTransaction(c) ==
    /\ begin_lock_txn(c) \/ begin_wait_txn(c)
    /\ transaction_mtx # "poisoned"
    /\ SlotsBusy

\* C35 (error handling): a begin_transaction that finds a transaction in
\* progress is answered success:false with 'Transaction already in progress'
\* there and then, and leaves the transaction and its pending writes as they
\* are.
C35_SecondBeginRefused ==
    [][\A c \in Conns :
          FindsTransaction(c) =>
              /\ resp'[c] = Err(TXN_IN_PROGRESS)
              /\ pc'[c] = "idle"
              /\ UNCHANGED <<txn_db, transaction>>]_vars

----------------------------------------------------------------------------
\* Point operations and close (db_manager.rs put, put_in_db, close).

\* Task t is inside a non-transactional put, get, delete or merge.
InPointOp(t) == pc[t] \in {"db_read", "in_db_read"}

\* Task t is inside close(), called by begin_transaction or reload.
InClose(t) == pc[t] \in {"close", "close_blocked"}

\* C36 (concurrency): a non-transactional point operation that runs while
\* another connection closes the engine gets to return, with its result or
\* with 'Database is not open', and so does the close.
C36_PointOpAndCloseTerminate ==
    \A c \in Conns :
        /\ InPointOp(c) ~> ~InPointOp(c)
        /\ InClose(c) ~> ~InClose(c)

----------------------------------------------------------------------------
\* A begin_transaction whose open fails (db_manager.rs begin_transaction,
\* begin_transaction_internal).

\* C37 (error handling): when begin_transaction's open of the transactional
\* engine fails, the request is answered with the error and the manager is
\* as it was before the call: the normal engine open and both slots empty.
C37_FailedBeginRestores ==
    [][\A c \in Conns :
          (begin_open(c) /\ ~resp'[c].success) =>
              /\ db' = "open"
              /\ txn_db' = None
              /\ transaction' = NoTxn]_vars

----------------------------------------------------------------------------
\* iterator_next followed by iterator_prev (db_manager.rs iterator_seek,
\* iterator_next, iterator_prev).

\* The keys of the database directory in these runs: k2 has a neighbour on
\* either side.
WalkKeys == {"k1", "k2", "k3"}

\* An iterator created, positioned, moved on and moved back.
there_and_back(seeking, k) ==
    << IterReq("create_iterator", None, 0),
       IterReq(seeking, k, 0),
       IterReq("iterator_next", None, 0),
       IterReq("iterator_prev", None, 0) >>

\* Runs in which c1 positions an iterator with iterator_seek or
\* iterator_seek_for_prev, calls iterator_next and then iterator_prev, and
\* c2 sends up to MaxOtherOps requests at any time. The database directory
\* holds any of k1, k2, k3 in the default family, with the value v1.
InitWalk ==
    /\ InitOpen
    /\ auth_token = None
    /\ build = "futex"
    /\ enabled = FALSE
    /\ store \in {s \in [Cfs \X WalkKeys -> {"v1", None}] :
                    \A cell \in Cfs \X WalkKeys :
                        cell[1] # DefaultCf => s[cell] = None}
    /\ \E seeking \in {"iterator_seek", "iterator_seek_for_prev"},
          k \in Keys :
         script = [c \in Conns |->
                      IF c = "c1" THEN there_and_back(seeking, k) ELSE <<>>]
    /\ budget = [c \in Conns |->
                    IF c = "c1" THEN Len(script[c]) ELSE MaxOtherOps]
    /\ trail = [NoTrail EXCEPT !.owner = "c1"]

SpecWalk == InitWalk /\ [][NextIter]_vars

\* Entries i .. i+2 of the record: a seek of one of the given kinds that
\* landed on a key with a present key on either side, iterator_next and
\* iterator_prev on the same iterator, nothing else served in between.
ThereAndBack(i, seeks) ==
    /\ Has(i, 3)
    /\ Log[i].req.action \in seeks
    /\ Log[i].resp.success
    /\ Log[i].resp.result # INVALID
    /\ Log[i + 1].req.action = "iterator_next"
    /\ Log[i + 2].req.action = "iterator_prev"
    /\ Log[i + 1].req.iterator_id = Log[i].req.iterator_id
    /\ Log[i + 2].req.iterator_id = Log[i].req.iterator_id
    /\ \E a \in WalkKeys, b \in WalkKeys :
          /\ Rank(a) < Rank(Log[i].resp.result[1])
          /\ Rank(Log[i].resp.result[1]) < Rank(b)
          /\ Present(Log[i + 1].before, a)
          /\ Present(Log[i + 1].before, b)

\* What iterator_prev is answered when it comes back to the key the seek
\* of entry i landed on.
BackOn(i) ==
    Log[i + 2].resp = Ok(Entry(Log[i + 1].before, Log[i].resp.result[1]))

\* C38 as stated: iterator_next and then iterator_prev bring an iterator that
\* iterator_seek or iterator_seek_for_prev positioned on k back to k.
C38_NextPrevInverse ==
    \A i \in 1 .. Len(Log) :
        ThereAndBack(i, {"iterator_seek", "iterator_seek_for_prev"})
        => BackOn(i)

\* C38 (algebraic), amended: iterator_next and then iterator_prev bring an
\* iterator that iterator_seek positioned on k back to k, when k has a
\* neighbour on either side and nothing else is served in between:
\* iterator_prev returns k with its value.
C38_NextPrevInverseForward ==
    \A i \in 1 .. Len(Log) : ThereAndBack(i, {"iterator_seek"}) => BackOn(i)

\* c1 positioned its iterator on k2 with iterator_seek, went on to k3 and
\* came back to k2.
C38_Witness ==
    /\ ThereAndBack(2, {"iterator_seek"})
    /\ Log[2].resp = Ok(<<"k2", "v1">>)
    /\ Log[3].resp = Ok(<<"k3", "v1">>)
    /\ Log[4].resp = Ok(<<"k2", "v1">>)

----------------------------------------------------------------------------
\* The write batch and the connections (db_manager.rs write_batch_*).

\* The operation a staging request adds to the batch.
StagedBy(r) ==
    << IF r.action = "write_batch_put" THEN "put" ELSE "delete",
       <<CfOf(r.cf_name), r.key>>, r.value >>

\* Connection c's write batch request is answered in this step.
WbAnswers(c) == pc[c] = "wb" /\ Answers(c)

\* C39 (concurrency): there is one write batch for the whole server. An
\* accepted write_batch_put or write_batch_delete of any connection is added
\* behind whatever any connection staged before it, a refused one and every
\* request that is not a write batch request leave the batch alone; a
\* successful write_batch_write of any connection stores, in the order of
\* staging, all that is staged and nothing else, and empties the batch; a
\* write_batch_clear or write_batch_destroy of any connection discards all
\* that is staged, whoever staged it.
C39_BatchShared ==
    [][/\ \A c \in Conns :
            WbAnswers(c) =>
              CASE req[c].action \in WbStaging ->
                     IF resp'[c].success
                     THEN write_batch' =
                              SomeBatch(Append(write_batch[1],
                                               StagedBy(req[c])))
                     ELSE write_batch' = write_batch
                [] req[c].action = "write_batch_write" ->
                     resp'[c].success =>
                         /\ store' = wb_apply(store, write_batch[1])
                         /\ write_batch' = SomeBatch(<<>>)
                [] req[c].action = "write_batch_clear" ->
                     resp'[c].success => write_batch' = SomeBatch(<<>>)
                [] OTHER -> write_batch' = NoBatch
       /\ (\A c \in Conns : ~WbAnswers(c)) => write_batch' = write_batch]_vars

\* c1 staged two puts and c2's write_batch_write stored them.
C39_Witness ==
    /\ pc["c1"] = "idle"
    /\ pc["c2"] = "idle"
    /\ Len(script["c1"]) = 3
    /\ script["c1"][1].action = "write_batch_write"
    /\ req["c1"].action = "write_batch_put"
    /\ resp["c1"].success
    /\ req["c2"].action = "write_batch_write"
    /\ resp["c2"].success
    /\ store[<<DefaultCf, req["c1"].key>>] = req["c1"].value
    /\ write_batch = SomeBatch(<<>>)

----------------------------------------------------------------------------
\* Expired entries and get (cache/cache.rs get, cleanup; cache.rs get).

\* C40 (safety): the cache never serves an expired entry: a get that finds
\* an entry whose expiry has passed, the sweep not having removed it yet, is
\* not answered from the cache but goes on to the manager as a miss.
C40_NoExpiredServed ==
    [][\A c \in Conns :
          (cached_get(c) /\ ~Unexpired(ReqCell(req[c]))) =>
              pc'[c] # "idle"]_vars

====
